---------------------------- MODULE Spec2Model ----------------------------
(***************************************************************************)
(* A model of the transform stages of the point-cloud converter:           *)
(*   tools/converter/transforms/downsample.py  (downsample_points,         *)
(*                                              get_target_count)          *)
(*   tools/converter/transforms/quantize.py    (quantize_points,           *)
(*                                              dequantize_points,         *)
(*                                              compute_quantization_error)*)
(*                                                                         *)
(* Numbers.  A float value is an integer count of 1/Scale units (Scale =   *)
(* 10^4, i.e. 0.1 mm when the unit is the metre), so 100.0 is 100 * Scale. *)
(* Every input the model draws is a float32 value; quantization and        *)
(* dequantization are carried out exactly and rounded to this grid where   *)
(* a result is stored.  The error statistics are computed as numpy         *)
(* computes them, in float32 with 24 significant bits and round to nearest *)
(* even (Float, FloatAdd, FloatMul, FloatSqrt).  PosInf / NegInf are the   *)
(* IEEE infinities.  TLC integers are 32 bit wide, so products that do not *)
(* fit are taken through MulDiv or through two-word values.                *)
(*                                                                         *)
(* Point counts.  The tiers of the code hold 100,000 and 50,000 points; a  *)
(* model cloud has a handful.  Target50k is the number of model points     *)
(* that stands for the '50k' tier and the '100k' tier is twice that, as in *)
(* the code; the 1% tolerance is computed from the target as the code      *)
(* computes it.                                                            *)
(***************************************************************************)
EXTENDS Integers, Sequences, FiniteSets, TLC

VARIABLES
    unit,       \* the module this process exercises
    rngStream,  \* which stream the bit generator produces from a seed
    castWarns,  \* whether numpy reports an overflow in a cast as a warning
    castInvalid,\* what a cast of NaN and of infinity to int16 gives here
    ncalls,     \* calls into downsample.py made so far by this process
    ds_call,    \* the latest call into downsample.py: function and arguments
    ds_ret,     \* what that call returned or raised
    ds_saved,   \* an earlier call into downsample.py and its result
    q_call,     \* arguments of the latest quantize_points call
    quant,      \* what quantize_points returned or raised
    deq,        \* what dequantize_points returned for quant
    qerr,       \* what compute_quantization_error returned for deq
    dq_call,    \* arguments of a dequantize_points call with another envelope
    dq_ret,     \* what that call returned or raised
    e_call,     \* arguments of a compute_quantization_error call on two arrays
    e_ret,      \* what that call returned or raised
    w_call,     \* the latest call of compute_aabb, write_points_bin or
                \* load_point_cloud
    w_ret,      \* what that call returned or raised
    fs,         \* the files of the output directory: path -> content
    frames,     \* the Frame objects of pkl_data.frames
    cv_call,    \* arguments of the convert_frames call
    cv_ret,     \* what convert_frames returned or raised
    em_ret,     \* what emit_output returned or raised for cv_ret
    v_call,     \* the latest call into the validators
    v_ret,      \* what that call returned
    arg_after   \* the array passed to the latest downsample_points or
                \* quantize_points call, as the caller finds it afterwards

vars == <<unit, rngStream, castWarns, castInvalid, ncalls, ds_call, ds_ret, ds_saved,
          q_call, quant, deq, qerr, dq_call, dq_ret, e_call, e_ret,
          w_call, w_ret, fs, frames, cv_call, cv_ret, em_ret,
          v_call, v_ret, arg_after>>

envVars == <<unit, rngStream, castWarns, castInvalid>>

dsVars == <<ncalls, ds_call, ds_ret, ds_saved>>
dqVars == <<dq_call, dq_ret>>
qVars == <<q_call, quant, deq, qerr, dq_call, dq_ret>>
eVars == <<e_call, e_ret>>
ioVars == <<w_call, w_ret, fs>>
pVars == <<frames, cv_call, cv_ret, em_ret>>
vVars == <<v_call, v_ret>>

-----------------------------------------------------------------------------
(* Bounds of the model *)

\* model points standing for the 50,000 points of tier '50k'
Target50k == 2
\* calls into downsample.py in one behaviour
MaxCalls == 3
\* distinct generator streams considered for every seed
Streams == 2
\* frames in the data handed to convert_frames
MaxFrames == 2
\* points in a cloud handed to quantize_points
MaxQPoints == 3
\* rows of an array handed to compute_quantization_error directly
MaxErrRows == 2

-----------------------------------------------------------------------------
(* Numbers *)

Scale == 100 * 100
PosInf == 2 ^ 30
NegInf == 0 - PosInf

Abs(x) == IF x < 0 THEN 0 - x ELSE x
Min2(a, b) == IF a <= b THEN a ELSE b
Max2(a, b) == IF a >= b THEN a ELSE b
IsInf(x) == x = PosInf \/ x = NegInf

\* A finite float32 of more than half the largest finite float32 (3e38 for
\* instance): twice the value, and the value minus its negative, overflow
\* to infinity, and every other number of the model vanishes beside it.
F32Big == PosInf - 1

\* a - b in float32, for a >= b
Sub32(a, b) ==
    IF a = b THEN 0
    ELSE IF a = F32Big /\ b = 0 - F32Big THEN PosInf
    ELSE IF a = F32Big THEN F32Big
    ELSE IF b = 0 - F32Big THEN F32Big
    ELSE a - b

RECURSIVE MulDivQR(_, _, _)
\* <<q, r>> with a * b = q * c + r and 0 <= r < c, for 0 <= a < c, b >= 0,
\* without forming a * b (c < 2^30; b is the smaller factor, below 2^17)
MulDivQR(a, b, c) ==
    IF b = 0 THEN <<0, 0>>
    ELSE LET h == MulDivQR(a, b \div 2, c)
             r2 == 2 * h[2]
             q2 == 2 * h[1] + (IF r2 >= c THEN 1 ELSE 0)
             r3 == (IF r2 >= c THEN r2 - c ELSE r2) + (IF b % 2 = 1 THEN a ELSE 0)
         IN  IF r3 >= c THEN <<q2 + 1, r3 - c>> ELSE <<q2, r3>>

\* floor(a * b / c) and the remainder, for a, b >= 0 and c > 0
MulDiv(a, b, c) ==
    LET h == MulDivQR(a % c, b, c)
    IN  <<(a \div c) * b + h[1], h[2]>>

\* a * b / c rounded to the nearest integer (a, b >= 0, c > 0)
MulDivRound(a, b, c) ==
    LET h == MulDiv(a, b, c)
    IN  IF 2 * h[2] >= c THEN h[1] + 1 ELSE h[1]

RECURSIVE MaxSeq(_)
MaxSeq(s) == IF Len(s) = 1 THEN s[1] ELSE Max2(Head(s), MaxSeq(Tail(s)))

RECURSIVE MinSeq(_)
MinSeq(s) == IF Len(s) = 1 THEN s[1] ELSE Min2(Head(s), MinSeq(Tail(s)))

RECURSIVE Flatten(_)
Flatten(ss) == IF ss = <<>> THEN <<>> ELSE Head(ss) \o Flatten(Tail(ss))

-----------------------------------------------------------------------------
(* numpy arrays *)

\* A 2-D array of shape (Len(rows), ncols), or a 1-D array (ncols = 0) whose
\* rows are its elements.
NdArray(dtype, ndim, ncols, rows) ==
    [dtype |-> dtype, ndim |-> ndim, ncols |-> ncols, rows |-> rows]

\* shape[0]
Shape0(a) == Len(a.rows)

\* a[indices] with an integer index array (0-based): a new array
TakeRows(a, indices) ==
    NdArray(a.dtype, a.ndim, a.ncols,
            [k \in 1..Len(indices) |-> a.rows[indices[k] + 1]])

Insert(x, s) ==
    LET k == Cardinality({i \in 1..Len(s) : s[i] <= x})
    IN  SubSeq(s, 1, k) \o <<x>> \o SubSeq(s, k + 1, Len(s))

RECURSIVE SortAsc(_)
\* ndarray.sort(): ascending
SortAsc(s) == IF s = <<>> THEN <<>> ELSE Insert(Head(s), SortAsc(Tail(s)))

-----------------------------------------------------------------------------
(* numpy.random: default_rng(seed) and Generator.choice(n, size, replace=False) *)
(* The bit generator is a library: its stream is a fixed function of the   *)
(* seed that the converter does not control.  rngStream selects which one; *)
(* it never changes after Init.                                            *)

RngModulus == 2 ^ 16 + 1
RngStep(s) == (75 * s + 74) % RngModulus

\* a generator that every caller shares: its position advances with each use
default_rng_shared(seed) ==
    [state |-> ((seed + ncalls) * (2 * rngStream + 1) + rngStream) % RngModulus]

\* default_rng(seed=seed): a fresh generator whose state depends on seed only
default_rng(seed) ==
    [state |-> (seed * (2 * rngStream + 1) + rngStream) % RngModulus]

RemoveAt(s, j) == SubSeq(s, 1, j - 1) \o SubSeq(s, j + 1, Len(s))

RECURSIVE Draw(_, _, _)
Draw(pool, s, k) ==
    IF k = 0 THEN <<>>
    ELSE LET j == (s % Len(pool)) + 1
         IN  <<pool[j]>> \o Draw(RemoveAt(pool, j), RngStep(s), k - 1)

\* rng.choice(n, size=size, replace=False): size distinct values of 0..n-1 in
\* the order drawn
choice(rng, n, size) == Draw([i \in 1..n |-> i - 1], rng.state, size)


-----------------------------------------------------------------------------
(* transforms/downsample.py *)

DefaultSeed == 42

\* tier_map = {'100k': 100_000, '50k': 50_000}, in model points
tier_map == [t \in {"100k", "50k"} |->
                IF t = "100k" THEN 2 * Target50k ELSE Target50k]

\* the branch taken when original_count <= target_count
ds_unchanged(points, target_tier, target_count, original_count) ==
    [status |-> "ok",
     points |-> points,
     indices |-> <<>>,
     sampled |-> FALSE,
     metadata |-> [method |-> "none",
                   target_tier |-> target_tier,
                   target_count |-> target_count,
                   original_count |-> original_count,
                   final_count |-> original_count,
                   reduction_ratio |-> <<1, 1>>,
                   within_spec |-> TRUE,
                   reason |-> "original_count <= target_count"]]

\* the index array left in the order the generator drew it
sort_indices_skipped(indices) == indices

\* indices.sort()
sort_indices(indices) == SortAsc(indices)

\* sampling that draws one index too few
ds_sample_short(points, target_tier, target_count, original_count, seed) ==
    LET rng == default_rng(seed)
        indices == sort_indices(choice(rng, original_count, target_count - 1))
        downsampled == TakeRows(points, indices)
        final_count == Shape0(downsampled)
    IN  [status |-> "ok", points |-> downsampled, indices |-> indices,
         sampled |-> TRUE,
         metadata |-> [method |-> "random", target_tier |-> target_tier,
                       target_count |-> target_count,
                       original_count |-> original_count,
                       final_count |-> final_count,
                       reduction_ratio |-> <<final_count, original_count>>,
                       within_spec |->
                           100 * Abs(final_count - target_count) <= target_count,
                       tolerance_pct |-> 1]]

\* the sampling branch: rng, choice, sort, points[indices], metadata.
\* The fields indices and sampled are the function's locals, kept for the
\* properties; reduction_ratio is the exact quotient <<final, original>>.
ds_sample(points, target_tier, target_count, original_count, seed) ==
    LET rng == default_rng(seed)
        indices == sort_indices(choice(rng, original_count, target_count))
        downsampled == TakeRows(points, indices)
        final_count == Shape0(downsampled)
        \* tolerance = 0.01 * target_count
        within_spec == 100 * Abs(final_count - target_count) <= target_count
    IN  [status |-> "ok",
         points |-> downsampled,
         indices |-> indices,
         sampled |-> TRUE,
         metadata |-> [method |-> "random",
                       target_tier |-> target_tier,
                       target_count |-> target_count,
                       original_count |-> original_count,
                       final_count |-> final_count,
                       reduction_ratio |-> <<final_count, original_count>>,
                       within_spec |-> within_spec,
                       tolerance_pct |-> 1]]

\* the test that skips sampling, with < for <=
ds_needs_none_strict(original_count, target_count) ==
    original_count < target_count

\* if original_count <= target_count
ds_needs_none_always(original_count, target_count) == TRUE

ds_needs_none(original_count, target_count) ==
    original_count <= target_count

\* the input check accepting any array
ds_shape_invalid_never(points) == FALSE

\* if points.ndim != 2 or points.shape[1] < 3
ds_shape_invalid(points) == points.ndim /= 2 \/ points.ncols < 3

\* downsample_points(points, target_tier, seed=42); seedArg is <<>> when the
\* caller gives no seed and <<seed>> otherwise
downsample_points(points, target_tier, seedArg) ==
    LET seed == IF seedArg = <<>> THEN DefaultSeed ELSE seedArg[1]
    IN  IF target_tier \notin DOMAIN tier_map
        THEN [status |-> "ValueError", error |-> "Invalid tier"]
        ELSE IF ds_shape_invalid(points)
        THEN [status |-> "ValueError", error |-> "Points must be (N, 3+) array"]
        ELSE LET target_count == tier_map[target_tier]
                 original_count == Shape0(points)
             IN  IF ds_needs_none(original_count, target_count)
                 THEN ds_unchanged(points, target_tier, target_count,
                                   original_count)
                 ELSE ds_sample(points, target_tier, target_count,
                                original_count, seed)

\* get_target_count(tier)
get_target_count(tier) ==
    IF tier \notin DOMAIN tier_map
    THEN [status |-> "ValueError", error |-> "Invalid tier"]
    ELSE [status |-> "ok", value |-> tier_map[tier]]

-----------------------------------------------------------------------------
(* transforms/quantize.py *)

\* 1.0 and 0.5
One == Scale
Half == Scale \div 2

\* float16: 11 significant bits, largest finite value 65504
Fp16Max == 65504

\* the binade of ax > 0: the e with 2^e <= ax / Scale < 2^(e+1)
Binade(ax) ==
    CHOOSE e \in (0 - 14)..15 :
        IF e < 0
        THEN ax < Scale /\ Scale <= ax * 2 ^ (0 - e)
                        /\ (e = 0 - 1 \/ ax * 2 ^ (0 - e - 1) < Scale)
        ELSE 2 ^ e * Scale <= ax /\ ax < 2 ^ (e + 1) * Scale

\* n / d rounded to the nearest integer, ties to even (n >= 0, d > 0)
RoundHalfEven(n, d) ==
    LET q == n \div d
        r == n % d
    IN  IF 2 * r > d \/ (2 * r = d /\ q % 2 = 1) THEN q + 1 ELSE q

\* the float16 nearest to a magnitude ax > 0 below 2^16, on the model's grid
Fp16Magnitude(ax) ==
    LET e == Binade(ax)
    IN  IF e >= 10
        THEN RoundHalfEven(ax, Scale * 2 ^ (e - 10)) * 2 ^ (e - 10) * Scale
        ELSE LET m == RoundHalfEven(ax * 2 ^ (10 - e), Scale)
             IN  RoundHalfEven(m * Scale, 2 ^ (10 - e))

\* astype(np.float16) of one float32 value: round to nearest even; a
\* magnitude that rounds beyond 65504 becomes infinite
ToFp16(v) ==
    LET ax == Abs(v)
        r == IF ax = 0 THEN 0
             ELSE IF ax >= 2 ^ 16 * Scale THEN PosInf
             ELSE Fp16Magnitude(ax)
        mag == IF r > Fp16Max * Scale THEN PosInf ELSE r
    IN  IF v < 0 THEN 0 - mag ELSE mag

\* the elements of an array, row by row
Elements(a) == IF a.ndim = 1 THEN a.rows ELSE Flatten(a.rows)

\* astype(np.float16): every element of an array converted
AsFloat16(a) ==
    [IF a.ndim = 1
     THEN [a EXCEPT !.rows = [i \in 1..Len(a.rows) |-> ToFp16(a.rows[i])]]
     ELSE [a EXCEPT !.rows = [i \in 1..Len(a.rows) |->
              [j \in 1..Len(a.rows[i]) |-> ToFp16(a.rows[i][j])]]]
     EXCEPT !.dtype = "float16"]

\* points.astype(np.float32) of an array of floats
AsFloat32(a) == [a EXCEPT !.dtype = "float32"]

\* a quantizer that halves the array although the mode is 'off'
quantize_off_narrowing(points) ==
    [status |-> "ok",
     points |-> AsFloat16(points),
     warnings |-> <<>>,
     metadata |-> [mode |-> "off", dtype |-> "float32",
                   bytes_per_point |-> 16, compression |-> One]]

\* quantize_off(points)
quantize_off(points) ==
    [status |-> "ok",
     points |-> points,
     warnings |-> <<>>,
     metadata |-> [mode |-> "off",
                   dtype |-> "float32",
                   bytes_per_point |-> 16,
                   compression |-> One]]

\* quantize_fp16(points).  The function issues no warning of its own; numpy
\* reports an overflow in the cast as a RuntimeWarning from version 1.24 on
\* and is silent before, which castWarns stands for.
quantize_fp16(points) ==
    LET p32 == IF points.dtype /= "float32" THEN AsFloat32(points) ELSE points
        quantized == AsFloat16(p32)
        overflow == \E i \in 1..Len(Elements(p32)) :
                        /\ ~IsInf(Elements(p32)[i])
                        /\ IsInf(Elements(quantized)[i])
    IN  [status |-> "ok",
         points |-> quantized,
         warnings |-> IF castWarns /\ overflow
                      THEN <<"RuntimeWarning: overflow encountered in cast">>
                      ELSE <<>>,
         metadata |-> [mode |-> "fp16",
                       dtype |-> "float16",
                       bytes_per_point |-> 8,
                       compression |-> Half,
                       precision_loss_pct |-> Scale \div 10,
                       suitable_range |-> "[-65504, 65504] (meters)"]]

Int16Max == 32767
UInt16Max == 65535

\* column k (1-based) of a 2-D array
Column(a, k) == [i \in 1..Len(a.rows) |-> a.rows[i][k]]

\* the extents left as computed
fix_zero_extent_skipped(range) == range

\* bbox_range[bbox_range == 0] = 1.0
fix_zero_extent(range) ==
    [k \in 1..Len(range) |-> IF range[k] = 0 THEN One ELSE range[k]]

\* whether 2.0 * (v - lo) / range - 1.0 divides zero by zero
NormalizeInvalid(v, lo, range) == range = 0 /\ v = lo

\* (2.0 * (v - lo) / range - 1.0) * 32767 cast to int16 (toward zero), for
\* lo <= v <= lo + range.  0 / 0 is NaN, which the cast turns into 0.
SpatialToInt16(v, lo, range) ==
    IF range = 0 THEN 0
    ELSE IF Sub32(v, lo) >= F32Big
    THEN \* 2.0 * (v - lo) is infinite: divided by an infinite extent it is
         \* NaN, by a finite one it stays infinite, and the cast of either
         \* to int16 is undefined
         IF range = PosInf THEN castInvalid.nan ELSE castInvalid.inf
    ELSE IF range >= F32Big
    THEN \* 2.0 * (v - lo) / range vanishes beside 1.0
         0 - Int16Max
    ELSE LET x == MulDiv(v - lo, 2 * Int16Max, range)
         IN  IF x[1] >= Int16Max
             THEN x[1] - Int16Max
             ELSE x[1] + (IF x[2] > 0 THEN 1 ELSE 0) - Int16Max

\* (intensity * 65535.0).clip(0, 65535).astype(np.uint16)
IntensityToUInt16(v) ==
    IF v <= 0 THEN 0
    ELSE IF v >= One THEN UInt16Max
    ELSE (v * UInt16Max) \div Scale

\* quantize_int16(points).  bbox_range and fp_invalid (a 0 / 0 was computed)
\* are the function's locals, kept for the properties.
quantize_int16(points) ==
    IF points.ndim < 2
    THEN [status |-> "IndexError", error |-> "tuple index out of range"]
    ELSE IF points.ncols < 3
    THEN [status |-> "ValueError",
          error |-> "int16 quantization requires at least 3 spatial coords"]
    ELSE IF Len(points.rows) = 0
    THEN [status |-> "ValueError",
          error |-> "zero-size array to reduction operation minimum"]
    ELSE
    LET p32 == IF points.dtype /= "float32" THEN AsFloat32(points) ELSE points
        n == Len(p32.rows)
        has_intensity == p32.ncols > 3
        bbox_min == [k \in 1..3 |-> MinSeq(Column(p32, k))]
        bbox_max == [k \in 1..3 |-> MaxSeq(Column(p32, k))]
        bbox_range == fix_zero_extent(
                          [k \in 1..3 |-> Sub32(bbox_max[k], bbox_min[k])])
        xyz_quantized ==
            [i \in 1..n |-> [k \in 1..3 |->
                SpatialToInt16(p32.rows[i][k], bbox_min[k], bbox_range[k])]]
        quantized ==
            IF has_intensity
            THEN [dtype |-> "int16,int16,int16,uint16",
                  names |-> <<"x", "y", "z", "intensity">>,
                  ndim |-> 1, ncols |-> 0,
                  rows |-> [i \in 1..n |->
                      [x |-> xyz_quantized[i][1],
                       y |-> xyz_quantized[i][2],
                       z |-> xyz_quantized[i][3],
                       intensity |-> IntensityToUInt16(p32.rows[i][4])]]]
            ELSE NdArray("int16", 2, 3, xyz_quantized)
    IN  [status |-> "ok",
         points |-> quantized,
         warnings |-> <<>>,
         bbox_range |-> bbox_range,
         fp_invalid |-> \E i \in 1..n, k \in 1..3 :
             NormalizeInvalid(p32.rows[i][k], bbox_min[k], bbox_range[k]),
         metadata |-> [mode |-> "int16",
                       dtype |-> IF has_intensity
                                 THEN "int16 (xyz) + uint16 (intensity)"
                                 ELSE "int16",
                       bytes_per_point |-> IF has_intensity THEN 8 ELSE 6,
                       compression |-> Half,
                       bbox_min |-> bbox_min,
                       bbox_max |-> bbox_max,
                       intensity_scale |-> IF has_intensity
                                           THEN <<UInt16Max>> ELSE <<>>,
                       precision_mm |->
                           IF MaxSeq(bbox_range) >= F32Big
                           THEN MaxSeq(bbox_range)
                           ELSE MulDivRound(MaxSeq(bbox_range), 1000,
                                            Int16Max)]]

\* if mode not in ('off', 'fp16', 'int16')
q_mode_invalid(mode) == mode \notin {"off", "fp16", "int16"}

\* quantize_points(points, mode)
quantize_points(points, mode) ==
    IF q_mode_invalid(mode)
    THEN [status |-> "ValueError", error |-> "Invalid quantization mode"]
    ELSE IF mode = "off" THEN quantize_off(points)
    ELSE IF mode = "fp16" THEN quantize_fp16(points)
    ELSE IF mode = "int16" THEN quantize_int16(points)
    ELSE [status |-> "ok", returned |-> "None"]

\* int16 -> [-1, 1] -> bbox, without the bbox minimum added back
SpatialFromInt16_no_offset(q, lo, range) ==
    MulDivRound(range, q + Int16Max, 2 * Int16Max)

\* (q / 32767.0 + 1.0) / 2.0 * range + lo, rounded to the grid
SpatialFromInt16(q, lo, range) ==
    MulDivRound(range, q + Int16Max, 2 * Int16Max) + lo

\* q / 65535.0, rounded to the grid
IntensityFromUInt16(q) == MulDivRound(q, Scale, UInt16Max)

\* mode == 'off': quantized.astype(np.float32)
dequantize_off(quantized) == AsFloat32(quantized)

\* the int16 branch of dequantize_points
dequantize_int16(quantized, metadata) ==
    IF "bbox_min" \notin DOMAIN metadata \/ "bbox_max" \notin DOMAIN metadata
    THEN [status |-> "KeyError", error |-> "bbox_min / bbox_max"]
    ELSE
    LET bbox_min == metadata.bbox_min
        bbox_max == metadata.bbox_max
        bbox_range == [k \in 1..3 |->
            IF bbox_max[k] - bbox_min[k] = 0 THEN One
            ELSE bbox_max[k] - bbox_min[k]]
        structured == "names" \in DOMAIN quantized
        n == Len(quantized.rows)
        xyz_int16 ==
            IF structured
            THEN [i \in 1..n |-> <<quantized.rows[i].x, quantized.rows[i].y,
                                   quantized.rows[i].z>>]
            ELSE [i \in 1..n |-> SubSeq(quantized.rows[i], 1, 3)]
        has_intensity ==
            IF structured
            THEN \E j \in 1..Len(quantized.names) :
                     quantized.names[j] = "intensity"
            ELSE quantized.ncols > 3
        xyz_float32 ==
            [i \in 1..n |-> [k \in 1..3 |->
                SpatialFromInt16(xyz_int16[i][k], bbox_min[k], bbox_range[k])]]
        intensity_uint16 ==
            [i \in 1..n |-> IF structured THEN quantized.rows[i].intensity
                            ELSE quantized.rows[i][4]]
    IN  [status |-> "ok",
         points |->
             IF has_intensity
             THEN NdArray("float32", 2, 4,
                      [i \in 1..n |-> xyz_float32[i] \o
                          <<IntensityFromUInt16(intensity_uint16[i])>>])
             ELSE NdArray("float32", 2, 3, xyz_float32)]

\* a dequantizer that takes an envelope without a mode for an 'off' envelope
dequantize_points_default_off(quantized, metadata) ==
    LET mode == IF "mode" \in DOMAIN metadata THEN metadata.mode ELSE "off"
    IN  IF mode = "off" \/ mode = "fp16"
        THEN [status |-> "ok", points |-> AsFloat32(quantized)]
        ELSE IF mode = "int16"
        THEN dequantize_int16(quantized, metadata)
        ELSE [status |-> "ValueError", error |-> "Unknown quantization mode"]

\* dequantize_points(quantized, metadata)
dequantize_points(quantized, metadata) ==
    LET mode == IF "mode" \in DOMAIN metadata THEN metadata.mode ELSE "None"
    IN  IF mode = "off"
        THEN [status |-> "ok", points |-> dequantize_off(quantized)]
        ELSE IF mode = "fp16"
        THEN [status |-> "ok", points |-> AsFloat32(quantized)]
        ELSE IF mode = "int16"
        THEN dequantize_int16(quantized, metadata)
        ELSE [status |-> "ValueError", error |-> "Unknown quantization mode"]

\* the shape of an array
Shape(a) == IF a.ndim = 1 THEN <<Len(a.rows)>> ELSE <<Len(a.rows), a.ncols>>

\* The statistics are computed in float32.  A float32 value is a record
\* [m, e] standing for m * 2^e grid units, with m = 0 or 2^23 <= m < 2^24;
\* every operation rounds its exact result to the nearest such value, ties
\* to even.  Exact products are kept as pairs <<hi, lo>> = hi * 2^24 + lo.
SigBits == 24

Float(m, e) == [m |-> m, e |-> e]
FloatZero == Float(0, 0)
FloatInf == Float(2 ^ (SigBits - 1), 2 ^ 10)

\* the number of binary digits of n >= 0
BitLength(n) ==
    IF n >= 2 ^ 30 THEN 31
    ELSE CHOOSE k \in 0..30 : n < 2 ^ k /\ (k = 0 \/ 2 ^ (k - 1) <= n)

\* a significand that rounding carried up to 2^24
Renormalize(m, e) ==
    IF m = 2 ^ SigBits THEN Float(2 ^ (SigBits - 1), e + 1) ELSE Float(m, e)

\* the float nearest to (q + f) * 2^e, where 0 <= f < 1 and sticky says f > 0
RoundInt(q, sticky, e) ==
    IF q = 0 THEN FloatZero
    ELSE LET k == BitLength(q)
         IN  IF k <= SigBits
             THEN Float(q * 2 ^ (SigBits - k), e - (SigBits - k))
             ELSE LET s == k - SigBits
                      m == q \div 2 ^ s
                      r == q % 2 ^ s
                      half == 2 ^ (s - 1)
                      up == r > half \/ (r = half /\ (sticky \/ m % 2 = 1))
                  IN  Renormalize(m + (IF up THEN 1 ELSE 0), e + s)

\* the exact product of two significands
MulWide(a, b) ==
    LET h == 2 ^ 12
        mid == (a \div h) * (b % h) + (a % h) * (b \div h)
        lo == (a % h) * (b % h) + (mid % h) * h
    IN  <<(a \div h) * (b \div h) + mid \div h + lo \div 2 ^ 24, lo % 2 ^ 24>>

\* the float nearest to (hi * 2^24 + lo) * 2^e, for hi <= 2^24
RoundWide(hi, lo, e) ==
    IF hi = 0 THEN RoundInt(lo, FALSE, e)
    ELSE IF hi = 2 ^ 24 THEN Float(2 ^ (SigBits - 1), e + 25)
    ELSE LET k == BitLength(hi)
             m == hi * 2 ^ (24 - k) + lo \div 2 ^ k
             r == lo % 2 ^ k
             half == 2 ^ (k - 1)
             up == r > half \/ (r = half /\ m % 2 = 1)
         IN  Renormalize(m + (IF up THEN 1 ELSE 0), e + k)

\* x * y
FloatMul(x, y) ==
    IF x.m = 0 \/ y.m = 0 THEN FloatZero
    ELSE LET w == MulWide(x.m, y.m) IN RoundWide(w[1], w[2], x.e + y.e)

\* x + y for x.e >= y.e, neither zero
FloatAddOrdered(x, y) ==
    LET d == x.e - y.e
    IN  IF d >= 25 THEN x
        ELSE LET hi == x.m \div 2 ^ (24 - d)
                 lo == (x.m % 2 ^ (24 - d)) * 2 ^ d + y.m
             IN  RoundWide(hi + lo \div 2 ^ 24, lo % 2 ^ 24, y.e)

\* x + y
FloatAdd(x, y) ==
    IF x.m = 0 THEN y
    ELSE IF y.m = 0 THEN x
    ELSE IF x.e >= y.e THEN FloatAddOrdered(x, y)
    ELSE FloatAddOrdered(y, x)

\* x / n for an integer n in 1..32
FloatDivInt(x, n) ==
    IF x.m = 0 \/ n = 1 THEN x
    ELSE LET q == (x.m \div n) * 2 ^ 7 + ((x.m % n) * 2 ^ 7) \div n
             r == ((x.m % n) * 2 ^ 7) % n
         IN  RoundInt(q, r > 0, x.e - 7)

\* whether the pair a is at most the pair b
WideLeq(a, b) == a[1] < b[1] \/ (a[1] = b[1] /\ a[2] <= b[2])

RECURSIVE IsqrtWide(_, _, _)
\* the r in lo..hi with r * r <= x < (r + 1) * (r + 1), x a pair
IsqrtWide(x, lo, hi) ==
    IF lo = hi THEN lo
    ELSE LET mid == (lo + hi + 1) \div 2
         IN  IF WideLeq(MulWide(mid, mid), x) THEN IsqrtWide(x, mid, hi)
             ELSE IsqrtWide(x, lo, mid - 1)

\* np.sqrt(x)
FloatSqrt(x) ==
    IF x.m = 0 THEN FloatZero
    ELSE LET t == IF x.e % 2 = 0 THEN 24 ELSE 23
             w == IF t = 24 THEN <<x.m, 0>>
                  ELSE <<x.m \div 2, (x.m % 2) * 2 ^ 23>>
             r == IsqrtWide(w, 2 ^ 23, 2 ^ 24 - 1)
             rr == MulWide(r, r)
             rest == (w[1] - rr[1]) * 2 ^ 24 + (w[2] - rr[2])
         IN  Renormalize(r + (IF rest > r THEN 1 ELSE 0), (x.e - t) \div 2)

\* x <= y for floats that are not negative
FloatLeq(x, y) ==
    IF x.m = 0 THEN TRUE
    ELSE IF y.m = 0 THEN FALSE
    ELSE x.e < y.e \/ (x.e = y.e /\ x.m <= y.m)

\* the float of an integer count of grid units
FloatOf(n) == RoundInt(n, FALSE, 0)

RECURSIVE FloatSumFrom(_, _, _, _)
\* acc + s[i] + s[i + step] + ... in this order
FloatSumFrom(s, i, step, acc) ==
    IF i > Len(s) THEN acc
    ELSE FloatSumFrom(s, i + step, step, FloatAdd(acc, s[i]))

\* ndarray.sum of float32 values as numpy adds them: one after the other
\* for fewer than 8 values, else eight interleaved partial sums over the
\* whole blocks of 8, combined pairwise, and the remaining values after them
FloatSum(s) ==
    IF Len(s) < 8 THEN FloatSumFrom(s, 1, 1, FloatZero)
    ELSE LET whole == SubSeq(s, 1, Len(s) - (Len(s) % 8))
             r == [j \in 1..8 |-> FloatSumFrom(whole, j, 8, FloatZero)]
             res == FloatAdd(FloatAdd(FloatAdd(r[1], r[2]), FloatAdd(r[3], r[4])),
                             FloatAdd(FloatAdd(r[5], r[6]), FloatAdd(r[7], r[8])))
         IN  FloatSumFrom(s, Len(whole) + 1, 1, res)

RECURSIVE FloatMax(_)
\* ndarray.max of floats that are not negative
FloatMax(s) ==
    IF Len(s) = 1 THEN s[1]
    ELSE LET rest == FloatMax(Tail(s))
         IN  IF FloatLeq(rest, Head(s)) THEN Head(s) ELSE rest

\* np.abs(o - d) for one element
AbsError(o, d) == IF IsInf(o) \/ IsInf(d) THEN FloatInf ELSE FloatOf(Abs(o - d))

\* compute_quantization_error(original, dequantized): the statistics are
\* floats of grid units; max_error_mm = max_error * 1000 is a product of
\* Python floats, exact, and written m * 125 * 2^(e + 3) without renormalizing
compute_quantization_error(original, dequantized) ==
    IF Shape(original) /= Shape(dequantized)
    THEN [status |-> "ValueError", error |-> "Shape mismatch"]
    ELSE IF Len(Elements(original)) = 0
    THEN [status |-> "ValueError",
          error |-> "zero-size array to reduction operation maximum"]
    ELSE
    LET o == Elements(original)
        d == Elements(dequantized)
        n == Len(o)
        error == [i \in 1..n |-> AbsError(o[i], d[i])]
        infinite == \E i \in 1..n : error[i] = FloatInf
        max_error == IF infinite THEN FloatInf ELSE FloatMax(error)
        mean_error == IF infinite THEN FloatInf
                      ELSE FloatDivInt(FloatSum(error), n)
        rmse == IF infinite THEN FloatInf
                ELSE FloatSqrt(FloatDivInt(
                         FloatSum([i \in 1..n |-> FloatMul(error[i], error[i])]),
                         n))
    IN  [status |-> "ok",
         stats |-> [max_error |-> max_error,
                    mean_error |-> mean_error,
                    rmse |-> rmse,
                    \* tolerance = 0.001
                    within_tolerance_1mm |->
                        FloatLeq(max_error, FloatOf(Scale \div 1000)),
                    max_error_mm |-> IF infinite THEN FloatInf
                                     ELSE Float(max_error.m * 125,
                                                max_error.e + 3)]]

-----------------------------------------------------------------------------
(* Inputs of the downsampler *)

\* the largest cloud has one point more than the '100k' target
MaxPoints == 2 * Target50k + 1

\* point j of a test cloud: the points of one cloud are pairwise different
DsRow(j, ncols) ==
    IF ncols = 4
    THEN <<j * Scale, (j % 2) * Scale, (0 - j) * Scale, (j % 2) * Scale>>
    ELSE SubSeq(<<j * Scale, (j % 2) * Scale, (0 - j) * Scale>>, 1, ncols)

DsCloud(n, ncols) ==
    NdArray("float32", 2, ncols, [j \in 1..n |-> DsRow(j, ncols)])

\* the cloud sizes at and next to the two targets, and the empty cloud
DsSizes == {0, Target50k, Target50k + 1, 2 * Target50k, MaxPoints}

\* float32 clouds (N, 3) of these sizes, and (N, 4) clouds
DsClouds ==
    {DsCloud(n, 3) : n \in DsSizes}
    \cup {DsCloud(n, 4) : n \in {0, MaxPoints}}

\* arrays that are no point cloud: (N, 2) and 1-D
DsBadArrays ==
    {DsCloud(MaxPoints, 2),
     NdArray("float32", 1, 0, <<Scale, 2 * Scale, 3 * Scale>>)}

TierNames == {"100k", "50k", "75k"}
SeedArgs == {<<>>, <<DefaultSeed>>, <<7>>}

DsCall(points, target_tier, seedArg) ==
    [fn |-> "downsample_points", points |-> points,
     target_tier |-> target_tier, seedArg |-> seedArg]

\* the calls of downsample_points the model makes: every (N, 3) cloud with
\* every recognized tier and seed, the (N, 4) clouds with every recognized
\* tier and the default seed, and the calls with a bad array or tier name
DsCalls ==
    UNION {{DsCall(p, t, s) :
                t \in DOMAIN tier_map,
                s \in IF p.ncols = 3 THEN SeedArgs ELSE {<<>>}} :
           p \in DsClouds}
    \cup {DsCall(p, t, <<>>) : p \in DsBadArrays, t \in TierNames}
    \cup {DsCall(DsCloud(MaxPoints, 3), "75k", <<>>)}

\* An output directory is a function from relative paths, sequences of
\* names, to what is found there; the directory itself has the path <<>>.
NoFiles == [path \in {} |-> {}]

\* path.parent.mkdir(parents=True, exist_ok=True), then the file written
WithFile(files, path, content) ==
    LET parents == {SubSeq(path, 1, n) : n \in 0..(Len(path) - 1)}
    IN  [q \in DOMAIN files \cup parents \cup {path} |->
            IF q = path THEN content
            ELSE IF q \in parents THEN [kind |-> "dir"]
            ELSE files[q]]

\* The writes into existing arrays ("in place") that a call of
\* downsample_points or quantize_points performs, each with the array
\* written, the array that owns its memory and the content written, as if
\* the spatial columns were normalized in the view xyz of the input
InPlaceWrites_normalizing_view(call, ret) ==
    IF ret.status /= "ok" THEN <<>>
    ELSE IF call.fn = "quantize_points" /\ call.mode = "int16"
    THEN <<[array |-> "xyz", owner |-> "points",
            content |-> [call.points EXCEPT !.rows =
                [i \in 1..Len(call.points.rows) |->
                    [k \in 1..call.points.ncols |->
                        IF k <= 3
                        THEN call.points.rows[i][k]
                                 - ret.metadata.bbox_min[k]
                        ELSE call.points.rows[i][k]]]]],
           [array |-> "bbox_range", owner |-> "bbox_range",
            content |-> ret.bbox_range]>>
    ELSE <<>>

\* The writes into existing arrays ("in place") that a call of
\* downsample_points or quantize_points performs, each with the array
\* written, the array that owns its memory and the content written:
\* indices.sort() on the array rng.choice returned; bbox_range[...] = 1.0
\* on the difference bbox_max - bbox_min; quantized['x'] = ... on the
\* array np.empty returned.  points[indices], xyz.min(axis=0), astype and
\* the arithmetic on xyz all make new arrays.
InPlaceWrites(call, ret) ==
    IF ret.status /= "ok" THEN <<>>
    ELSE IF call.fn = "downsample_points"
    THEN IF ret.sampled
         THEN <<[array |-> "indices", owner |-> "indices",
                 content |-> ret.indices]>>
         ELSE <<>>
    ELSE IF call.fn = "quantize_points" /\ call.mode = "int16"
    THEN <<[array |-> "bbox_range", owner |-> "bbox_range",
            content |-> ret.bbox_range]>>
         \o (IF call.points.ncols > 3
             THEN <<[array |-> "quantized", owner |-> "quantized",
                     content |-> ret.points]>>
             ELSE <<>>)
    ELSE <<>>

\* the argument array after the writes of a call: the content of the last
\* write into its memory, if any
AfterWrites(points, writes) ==
    LET own == SelectSeq(writes, LAMBDA w : w.owner = "points")
    IN  IF own = <<>> THEN points ELSE own[Len(own)].content

NoCall == [fn |-> "none"]
NoRet == [status |-> "none"]

-----------------------------------------------------------------------------
(* The state machine *)

\* the observer may note the latest downsample_points call that returned,
\* with its result, before the next call overwrites them
Observe ==
    \/ ds_saved' = ds_saved
    \/ /\ ds_call.fn = "downsample_points"
       /\ ds_ret.status = "ok"
       /\ ds_saved' = [has |-> TRUE, at |-> ncalls,
                       call |-> ds_call, ret |-> ds_ret]

\* one call of downsample_points
DownsampleCall ==
    /\ unit = "downsample"
    /\ ncalls < MaxCalls
    /\ \E c \in DsCalls :
        /\ ncalls' = ncalls + 1
        /\ ds_call' = c
        /\ \E ret \in {downsample_points(c.points, c.target_tier, c.seedArg)} :
               /\ ds_ret' = ret
               /\ arg_after' = AfterWrites(c.points, InPlaceWrites(c, ret))
        /\ Observe
        /\ UNCHANGED <<vVars, envVars, eVars, ioVars, pVars>>
        /\ UNCHANGED qVars

\* one call of get_target_count
GetTargetCountCall ==
    /\ unit = "downsample"
    /\ ncalls < MaxCalls
    /\ \E tier \in TierNames :
        /\ ncalls' = ncalls + 1
        /\ ds_call' = [fn |-> "get_target_count", tier |-> tier]
        /\ ds_ret' = get_target_count(tier)
        /\ Observe
        /\ UNCHANGED <<arg_after, vVars, envVars, eVars, ioVars, pVars>>
        /\ UNCHANGED qVars

-----------------------------------------------------------------------------
(* Inputs of the quantizer *)

\* a value given in units and ten-thousandths
V(units, frac) == units * Scale + frac

\* points [x, y, z, intensity]: two corners of the +-100 cube, a point
\* between them that does not divide the extent evenly, an intensity outside
\* [0, 1], and a point outside the cube and beyond the float16 range
QPoints ==
    {<<V(0 - 100, 0), V(0 - 100, 0), V(0 - 100, 0), V(0, 0)>>,
     <<V(100, 0), V(100, 0), V(100, 0), V(1, 0)>>,
     <<V(12, 3456), V(0 - 7, 0 - 2500), V(100, 0), V(0, 5000)>>,
     <<V(50, 0), V(50, 0), V(50, 0), V(1, 5000)>>,
     <<V(66000, 0), V(0, 0), V(0 - 100, 0), V(0, 5000)>>}

RECURSIVE SeqsUpTo(_, _)
\* the sequences over S of length at most n
SeqsUpTo(S, n) ==
    IF n = 0 THEN {<<>>}
    ELSE LET shorter == SeqsUpTo(S, n - 1)
         IN  shorter \cup {Append(q, x) : q \in shorter, x \in S}

\* float32 clouds (N, 4) and (N, 3) of up to MaxQPoints points
QClouds ==
    {NdArray("float32", 2, 4, rows) : rows \in SeqsUpTo(QPoints, MaxQPoints)}
    \cup {NdArray("float32", 2, 3,
                  [i \in 1..Len(rows) |-> SubSeq(rows[i], 1, 3)]) :
              rows \in SeqsUpTo(QPoints, MaxQPoints)}

\* arrays that are no point cloud: (N, 2) and 1-D
QBadArrays ==
    {NdArray("float32", 2, 2, <<<<V(1, 0), V(2, 0)>>, <<V(3, 0), V(4, 0)>>>>),
     NdArray("float32", 1, 0, <<V(1, 0), V(2, 0), V(3, 0)>>)}

ModeNames == {"off", "fp16", "int16", "uint8"}

QCall(points, mode) ==
    [fn |-> "quantize_points", points |-> points, mode |-> mode]

\* the calls of quantize_points the model makes: every cloud with every
\* mode, and the calls with a bad array or an unknown mode name
QCalls ==
    {QCall(p, m) : p \in QClouds, m \in {"off", "fp16", "int16"}}
    \cup {QCall(p, m) : p \in QBadArrays, m \in ModeNames}
    \cup {QCall(NdArray("float32", 2, 4, <<>>), "uint8")}

\* points with coordinates near the ends of the float32 range
QExtremePoints ==
    {<<0 - F32Big, V(0 - 100, 0), V(0, 0), V(0, 0)>>,
     <<F32Big, V(100, 0), V(0, 0), V(1, 0)>>,
     <<V(0, 0), V(0, 0), F32Big, V(0, 5000)>>,
     <<V(100, 0), 0 - F32Big, 0 - F32Big, V(0, 5000)>>}

\* int16 calls on clouds (N, 4) and (N, 3) of one or two such points
QExtremeCalls ==
    {QCall(NdArray("float32", 2, 4, rows), "int16") :
         rows \in SeqsUpTo(QExtremePoints, 2) \ {<<>>}}
    \cup {QCall(NdArray("float32", 2, 3,
                        [i \in 1..Len(rows) |-> SubSeq(rows[i], 1, 3)]),
                "int16") :
              rows \in SeqsUpTo(QExtremePoints, 2) \ {<<>>}}

\* what the cast of a NaN and of an infinity to int16 may give: the low
\* half of the 32-bit conversion result (0 or -1) or a saturated value
CastOutcomes == {0 - Int16Max - 1, 0 - 1, 0, Int16Max}

\* one call of quantize_points
QuantizeCall ==
    /\ unit \in {"quantize", "extreme"}
    /\ q_call = NoCall
    /\ \E c \in IF unit = "extreme" THEN QExtremeCalls ELSE QCalls :
        /\ q_call' = c
        /\ \E ret \in {quantize_points(c.points, c.mode)} :
               /\ quant' = ret
               /\ arg_after' = AfterWrites(c.points, InPlaceWrites(c, ret))
        /\ UNCHANGED <<deq, qerr>>
        /\ UNCHANGED dqVars
        /\ UNCHANGED <<vVars, envVars, eVars, ioVars, pVars>>
        /\ UNCHANGED dsVars

\* dequantize_points on what quantize_points returned
DequantizeCall ==
    /\ unit = "quantize"
    /\ quant.status = "ok"
    /\ "metadata" \in DOMAIN quant
    /\ deq = NoRet
    /\ deq' = dequantize_points(quant.points, quant.metadata)
    /\ UNCHANGED <<q_call, quant, qerr>>
    /\ UNCHANGED dqVars
    /\ UNCHANGED <<arg_after, vVars, envVars, eVars, ioVars, pVars>>
    /\ UNCHANGED dsVars

\* compute_quantization_error of the original against the round trip
ErrorCall ==
    /\ deq.status = "ok"
    /\ qerr = NoRet
    /\ qerr' = compute_quantization_error(q_call.points, deq.points)
    /\ UNCHANGED <<q_call, quant, deq>>
    /\ UNCHANGED dqVars
    /\ UNCHANGED <<arg_after, vVars, envVars, eVars, ioVars, pVars>>
    /\ UNCHANGED dsVars

\* an envelope without one of its fields
WithoutField(metadata, name) ==
    [k \in DOMAIN metadata \ {name} |-> metadata[k]]

\* envelopes a caller may hand to dequantize_points in place of the one
\* quantize_points returned: the mode missing or unknown, a bbox corner missing
OtherEnvelopes(metadata) ==
    {WithoutField(metadata, "mode"),
     [metadata EXCEPT !.mode = "unknown"],
     WithoutField(metadata, "bbox_min"),
     WithoutField(metadata, "bbox_max")}

\* dequantize_points on the quantized array with another envelope, after the
\* calls that used the returned one
DequantizeWithCall ==
    /\ quant.status = "ok"
    /\ qerr /= NoRet
    /\ dq_call = NoCall
    /\ \E metadata \in OtherEnvelopes(quant.metadata) :
        /\ dq_call' = [fn |-> "dequantize_points",
                       quantized |-> quant.points, metadata |-> metadata]
        /\ dq_ret' = dequantize_points(quant.points, metadata)
    /\ UNCHANGED <<q_call, quant, deq, qerr>>
    /\ UNCHANGED <<arg_after, vVars, envVars, eVars, ioVars, pVars>>
    /\ UNCHANGED dsVars

\* values that differ from zero by 0.1833 and by 0.6693 units
ErrValues == {V(0, 1833), V(0, 6693)}

\* (N, 3) float32 arrays of these values, of up to MaxErrRows rows
ErrArrays ==
    {NdArray("float32", 2, 3, rows) :
        rows \in SeqsUpTo({<<x, y, z>> : x, y, z \in ErrValues}, MaxErrRows)}

\* the array of the same shape holding zeros
ZerosLike(a) ==
    [a EXCEPT !.rows = [i \in 1..Len(a.rows) |->
                           [j \in 1..Len(a.rows[i]) |-> 0]]]

\* the pairs compute_quantization_error is called on directly: an array
\* against zeros, against itself, and against an array of another shape
ErrPairs ==
    {<<ZerosLike(a), a>> : a \in ErrArrays}
    \cup {<<a, a>> : a \in ErrArrays}
    \cup {<<[a EXCEPT !.rows = Tail(a.rows)], a>> :
              a \in {b \in ErrArrays : Len(b.rows) > 0}}

\* one call of compute_quantization_error on two arrays
ErrorDirectCall ==
    /\ unit = "error"
    /\ e_call = NoCall
    /\ \E pair \in ErrPairs :
        /\ e_call' = [fn |-> "compute_quantization_error",
                      original |-> pair[1], dequantized |-> pair[2]]
        /\ e_ret' = compute_quantization_error(pair[1], pair[2])
    /\ UNCHANGED <<arg_after, vVars, envVars, ioVars, pVars>>
    /\ UNCHANGED dsVars
    /\ UNCHANGED qVars

\* the spatial part of an array, as a sequence of rows <<x, y, z>>
SpatialRows(a) ==
    [i \in 1..Len(a.rows) |->
        IF a.ndim = 1 THEN <<a.rows[i].x, a.rows[i].y, a.rows[i].z>>
        ELSE SubSeq(a.rows[i], 1, 3)]

\* the corners of the box around a non-empty sequence of <<x, y, z>> rows
Corners(rows) ==
    [min |-> [k \in 1..3 |-> MinSeq([i \in 1..Len(rows) |-> rows[i][k]])],
     max |-> [k \in 1..3 |-> MaxSeq([i \in 1..Len(rows) |-> rows[i][k]])]]

\* compute_aabb(points): componentwise min and max over the spatial
\* columns; the empty cloud has the box (0,0,0)-(0,0,0)
compute_aabb(points) ==
    IF Len(points.rows) = 0
    THEN [min |-> <<0, 0, 0>>, max |-> <<0, 0, 0>>]
    ELSE Corners(SpatialRows(points))

\* the bounds taken over the x values on every axis
load_point_cloud_first_axis(data) ==
    LET num_points == (4 * Len(data)) \div (4 * 3)
        points == [i \in 1..num_points |-> SubSeq(data, 3 * i - 2, 3 * i)]
        xs == [i \in 1..num_points |-> points[i][1]]
    IN  IF points /= <<>>
        THEN [points |-> points,
              min_bounds |-> <<MinSeq(xs), MinSeq(xs), MinSeq(xs)>>,
              max_bounds |-> <<MaxSeq(xs), MaxSeq(xs), MaxSeq(xs)>>]
        ELSE [points |-> points,
              min_bounds |-> <<0, 0, 0>>, max_bounds |-> <<0, 0, 0>>]

\* load_point_cloud, on the content of the file as a sequence of 4-byte
\* floats: stride 3, a trailing part of a point is not read
load_point_cloud(data) ==
    LET num_points == (4 * Len(data)) \div (4 * 3)
        points == [i \in 1..num_points |-> SubSeq(data, 3 * i - 2, 3 * i)]
        xs == [i \in 1..num_points |-> points[i][1]]
        ys == [i \in 1..num_points |-> points[i][2]]
        zs == [i \in 1..num_points |-> points[i][3]]
    IN  IF points /= <<>>
        THEN [points |-> points,
              min_bounds |-> <<MinSeq(xs), MinSeq(ys), MinSeq(zs)>>,
              max_bounds |-> <<MaxSeq(xs), MaxSeq(ys), MaxSeq(zs)>>]
        ELSE [points |-> points,
              min_bounds |-> <<0, 0, 0>>, max_bounds |-> <<0, 0, 0>>]

\* the bytes of the header '<Bffffff I': mode tag, six floats, point count
HeaderSize == 1 + 6 * 4 + 4

\* the point count of the header taken as the number of floats written
write_points_bin_counts_floats(points, path, mode, files) ==
    LET aabb == compute_aabb(points)
        count == Len(points.rows)
        content == [kind |-> "file",
                    header |-> <<mode>> \o aabb.min \o aabb.max
                                   \o <<3 * count>>,
                    payload |-> SpatialRows(points)]
    IN  [status |-> "ok",
         result |-> [point_count |-> count, header_size |-> HeaderSize,
                     file_size |-> HeaderSize + 4 * 3 * count],
         fs |-> WithFile(files, path, content)]

\* write_points_bin(points, path, mode): the header '<Bffffff I' of mode
\* tag, AABB of the array and point count, then the xyz values as 4-byte
\* floats
write_points_bin(points, path, mode, files) ==
    LET aabb == compute_aabb(points)
        count == Len(points.rows)
        content == [kind |-> "file",
                    header |-> <<mode>> \o aabb.min \o aabb.max
                                   \o <<count>>,
                    payload |-> SpatialRows(points)]
    IN  [status |-> "ok",
         result |-> [point_count |-> count, header_size |-> HeaderSize,
                     file_size |-> HeaderSize + 4 * 3 * count],
         fs |-> WithFile(files, path, content)]

\* struct.unpack('<Bffffff I', f.read(29)) on a container file
read_header(content) ==
    [mode |-> content.header[1],
     min |-> SubSeq(content.header, 2, 4),
     max |-> SubSeq(content.header, 5, 7),
     count |-> content.header[8]]

\* files of xyz floats: the spatial part of a cloud, alone or followed by
\* one more float
RawFiles ==
    {Elements(c) \o tail :
        c \in {q \in QClouds : q.ncols = 3}, tail \in {<<>>, <<V(7, 0)>>}}

\* one call of compute_aabb on a cloud
ComputeAabbCall ==
    /\ unit = "writer"
    /\ w_call = NoCall
    /\ \E points \in QClouds :
        /\ w_call' = [fn |-> "compute_aabb", points |-> points]
        /\ w_ret' = [status |-> "ok", aabb |-> compute_aabb(points)]
    /\ UNCHANGED fs
    /\ UNCHANGED <<arg_after, vVars, envVars, eVars, pVars>>
    /\ UNCHANGED dsVars
    /\ UNCHANGED qVars

\* one call of write_points_bin into an empty directory
WritePointsBinCall ==
    /\ unit = "writer"
    /\ w_call = NoCall
    /\ \E points \in QClouds, mode \in {0, 1},
          path \in {<<"test.bin">>, <<"subdir", "nested", "test.bin">>} :
        LET ret == write_points_bin(points, path, mode, fs)
        IN  /\ w_call' = [fn |-> "write_points_bin", points |-> points,
                          path |-> path, mode |-> mode]
            /\ w_ret' = [status |-> ret.status, result |-> ret.result]
            /\ fs' = ret.fs
    /\ UNCHANGED <<arg_after, vVars, envVars, eVars, pVars>>
    /\ UNCHANGED dsVars
    /\ UNCHANGED qVars

\* one call of load_point_cloud on a file of xyz floats
LoadPointCloudCall ==
    /\ unit = "writer"
    /\ w_call = NoCall
    /\ \E data \in RawFiles :
        /\ w_call' = [fn |-> "load_point_cloud", data |-> data]
        /\ w_ret' = [status |-> "ok", loaded |-> load_point_cloud(data)]
    /\ UNCHANGED fs
    /\ UNCHANGED <<arg_after, vVars, envVars, eVars, pVars>>
    /\ UNCHANGED dsVars
    /\ UNCHANGED qVars

\* the name of a file of a frame
FileName(frame_id, suffix) == frame_id \o suffix

\* ---- validators ----

\* the id of frame number n and the number of an id
FrameId(n) ==
    IF n = 0 THEN "000000" ELSE IF n = 1 THEN "000001"
    ELSE IF n = 2 THEN "000002" ELSE "000003"

FrameNumber(id) == CHOOSE n \in 0..3 : FrameId(n) = id

\* pi in 1/Scale radians
Pi == 31416

\* one ceiling for both tiers
PointCeiling_equal == [t \in {"full", "fallback"} |-> Target50k]

\* the point-count ceilings of the tiers, in model points as tier_map
PointCeiling ==
    [t \in {"full", "fallback"} |->
        IF t = "full" THEN 2 * Target50k ELSE Target50k]

\* Every check is modelled as returning [valid, errors, warnings].

\* 1. frame count
validate_frame_count(manifest, expected) ==
    LET got == Len(manifest.frames)
    IN  [valid |-> got = expected,
         errors |-> IF got = expected THEN <<>>
                    ELSE <<[message |-> "count mismatch",
                            expected |-> expected, got |-> got]>>,
         warnings |-> <<>>]

\* 2. point-count budget: an error line for every frame with no points or
\* with more than the ceiling of the tier
validate_point_counts(manifest, tier) ==
    LET bad == SelectSeq(manifest.frames,
                         LAMBDA f : f.pointCount <= 0
                                    \/ f.pointCount > PointCeiling[tier])
    IN  [valid |-> bad = <<>>,
         errors |-> [i \in 1..Len(bad) |->
                        [frame |-> bad[i].id,
                         message |-> IF bad[i].pointCount <= 0
                                     THEN "no points" ELSE "exceeds",
                         bound |-> IF bad[i].pointCount <= 0
                                   THEN 0 ELSE PointCeiling[tier]]],
         warnings |-> <<>>]

\* what the AABB check finds for one frame
AabbFinding(files, id) ==
    LET path == <<"frames", FileName(id, ".bin")>>
    IN  IF path \notin DOMAIN files \/ files[path].kind /= "file"
        THEN "file not found"
        ELSE IF \E k \in 1..3 : read_header(files[path]).min[k]
                                     > read_header(files[path]).max[k]
        THEN "inverted bounds"
        ELSE "ok"

\* the check given up at the first frame that has an error
validate_aabb_ranges_first_error(files, manifest) ==
    LET bad == SelectSeq(manifest.frames,
                         LAMBDA f : AabbFinding(files, f.id) /= "ok")
    IN  [valid |-> bad = <<>>,
         errors |-> [i \in 1..Min2(1, Len(bad)) |->
                        [frame |-> bad[i].id,
                         message |-> AabbFinding(files, bad[i].id)]],
         warnings |-> <<>>]

\* 3. AABB sanity over the headers of the frames
validate_aabb_ranges(files, manifest) ==
    LET bad == SelectSeq(manifest.frames,
                         LAMBDA f : AabbFinding(files, f.id) /= "ok")
    IN  [valid |-> bad = <<>>,
         errors |-> [i \in 1..Len(bad) |->
                        [frame |-> bad[i].id,
                         message |-> AabbFinding(files, bad[i].id)]],
         warnings |-> <<>>]

\* 4. yaw sanity: a warning for every ground-truth box whose yaw lies
\* outside (-pi, pi] by more than the tolerance, taken as 0.01 rad; never
\* a failure
validate_yaw_sanity(files, manifest) ==
    LET boxes(id) ==
            LET path == <<FileName(id, ".gt.json")>>
            IN  IF path \in DOMAIN files THEN files[path].gt ELSE <<>>
        outliers(id) ==
            SelectSeq(boxes(id),
                      LAMBDA d : Abs(d.yaw) > Pi + Scale \div 100)
    IN  [valid |-> TRUE,
         errors |-> <<>>,
         warnings |->
             Flatten([i \in 1..Len(manifest.frames) |->
                 [j \in 1..Len(outliers(manifest.frames[i].id)) |->
                     [frame |-> manifest.frames[i].id,
                      message |-> "yaw out of range",
                      yaw |-> outliers(manifest.frames[i].id)[j].yaw]]])]

\* equal neighbours taken as ordered
validate_frame_ordering_non_strict(manifest) ==
    LET ids == [i \in 1..Len(manifest.frames) |-> manifest.frames[i].id]
        bad == SelectSeq([i \in 1..(Len(ids) - 1) |-> i],
                         LAMBDA i : FrameNumber(ids[i])
                                    > FrameNumber(ids[i + 1]))
    IN  IF ids = <<>>
        THEN [valid |-> FALSE,
              errors |-> <<[message |-> "no frames"]>>,
              warnings |-> <<>>]
        ELSE [valid |-> bad = <<>>,
              errors |-> [k \in 1..Len(bad) |->
                             [message |-> "out of order",
                              ids |-> <<ids[bad[k]], ids[bad[k] + 1]>>]],
              warnings |-> <<>>]

\* 5. frame ordering: an error for an empty list and for every adjacent
\* pair that does not increase
validate_frame_ordering(manifest) ==
    LET ids == [i \in 1..Len(manifest.frames) |-> manifest.frames[i].id]
        bad == SelectSeq([i \in 1..(Len(ids) - 1) |-> i],
                         LAMBDA i : FrameNumber(ids[i])
                                    >= FrameNumber(ids[i + 1]))
    IN  IF ids = <<>>
        THEN [valid |-> FALSE,
              errors |-> <<[message |-> "no frames"]>>,
              warnings |-> <<>>]
        ELSE [valid |-> bad = <<>>,
              errors |-> [k \in 1..Len(bad) |->
                             [message |-> "out of order",
                              ids |-> <<ids[bad[k]], ids[bad[k] + 1]>>]],
              warnings |-> <<>>]

\* 6. detector coverage: a warning for an empty branch list
validate_detector_coverage(manifest) ==
    [valid |-> TRUE,
     errors |-> <<>>,
     warnings |-> IF manifest.branches = <<>>
                  THEN <<[message |-> "no branches"]>> ELSE <<>>]

\* the checks in the order run_validators runs them
CheckNames ==
    <<"frame_count", "point_counts", "aabb", "yaw", "ordering", "coverage">>

\* the checks run one after the other up to the first that fails
run_validators_short_circuit(files, manifest_path, tier, expected) ==
    IF manifest_path \notin DOMAIN files
       \/ "manifest" \notin DOMAIN files[manifest_path]
    THEN [checks |-> [c \in {} |-> {}],
          warnings |-> <<>>,
          errors |-> <<[message |-> "manifest could not be loaded"]>>,
          summary |-> "manifest could not be loaded"]
    ELSE LET manifest == files[manifest_path].manifest
             all == [c \in {CheckNames[i] : i \in 1..Len(CheckNames)} |->
                 IF c = "frame_count"
                 THEN validate_frame_count(manifest, expected)
                 ELSE IF c = "point_counts"
                 THEN validate_point_counts(manifest, tier)
                 ELSE IF c = "aabb" THEN validate_aabb_ranges(files, manifest)
                 ELSE IF c = "yaw" THEN validate_yaw_sanity(files, manifest)
                 ELSE IF c = "ordering" THEN validate_frame_ordering(manifest)
                 ELSE validate_detector_coverage(manifest)]
             ran == SelectSeq(CheckNames,
                        LAMBDA c : \A i \in 1..Len(CheckNames) :
                            (\E j \in (i + 1)..Len(CheckNames) :
                                 CheckNames[j] = c)
                            => all[CheckNames[i]].valid)
             errors == Flatten([i \in 1..Len(ran) |-> all[ran[i]].errors])
         IN  [checks |-> [c \in {ran[i] : i \in 1..Len(ran)} |-> all[c]],
              warnings |->
                  Flatten([i \in 1..Len(ran) |-> all[ran[i]].warnings]),
              errors |-> errors,
              summary |-> IF errors = <<>> THEN "passed" ELSE "failed"]

\* run_validators(output_dir, manifest_path, tier, expected_frame_count):
\* the manifest is loaded, then all six checks run and their messages are
\* collected; without a manifest the report holds one error and no check
run_validators(files, manifest_path, tier, expected) ==
    IF manifest_path \notin DOMAIN files
       \/ "manifest" \notin DOMAIN files[manifest_path]
    THEN [checks |-> [c \in {} |-> {}],
          warnings |-> <<>>,
          errors |-> <<[message |-> "manifest could not be loaded"]>>,
          summary |-> "manifest could not be loaded"]
    ELSE LET manifest == files[manifest_path].manifest
             all == [c \in {CheckNames[i] : i \in 1..Len(CheckNames)} |->
                 IF c = "frame_count"
                 THEN validate_frame_count(manifest, expected)
                 ELSE IF c = "point_counts"
                 THEN validate_point_counts(manifest, tier)
                 ELSE IF c = "aabb" THEN validate_aabb_ranges(files, manifest)
                 ELSE IF c = "yaw" THEN validate_yaw_sanity(files, manifest)
                 ELSE IF c = "ordering" THEN validate_frame_ordering(manifest)
                 ELSE validate_detector_coverage(manifest)]
             errors == Flatten([i \in 1..Len(CheckNames) |->
                                   all[CheckNames[i]].errors])
         IN  [checks |-> all,
              warnings |-> Flatten([i \in 1..Len(CheckNames) |->
                                       all[CheckNames[i]].warnings]),
              errors |-> errors,
              summary |-> IF errors = <<>> THEN "passed" ELSE "failed"]

\* the frame lists of the manifests: frames 0 and 1 in any order and
\* number, without points, at the lower ceiling and above the upper one
VFrameLists ==
    SeqsUpTo({[id |-> FrameId(n), pointCount |-> c] :
                 n \in 0..1, c \in {0, Target50k, 2 * Target50k + 1}},
             MaxFrames)

\* a container of which only the header is read
VContainer(min, max) ==
    [kind |-> "file", header |-> <<0>> \o min \o max \o <<100>>,
     payload |-> <<>>]

\* output directories found by the validators: a manifest with a frame
\* list; for frames 0 and 1 no container, one with a proper box or one
\* with min.x > max.x; and either a branch and a ground-truth yaw in
\* range, or no branch and a yaw out of range.  One directory holds a
\* manifest that is no JSON.
VDirs ==
    {[path \in {<<>>, <<"frames">>, <<"manifest.json">>, <<"000000.gt.json">>}
              \cup {<<"frames", FileName(FrameId(n), ".bin")>> :
                       n \in {m \in 0..1 : bins[m + 1] /= "missing"}} |->
         IF path = <<"manifest.json">>
         THEN [kind |-> "file",
               manifest |-> [frames |-> l,
                             branches |-> IF clean THEN <<"b1">> ELSE <<>>]]
         ELSE IF path = <<"000000.gt.json">>
         THEN [kind |-> "file",
               gt |-> <<[id |-> "g1",
                         yaw |-> IF clean THEN Pi - Scale \div 10
                                 ELSE 0 - Pi - Scale \div 10]>>]
         ELSE IF Len(path) = 2
         THEN IF \E m \in 0..1 :
                     /\ path[2] = FileName(FrameId(m), ".bin")
                     /\ bins[m + 1] = "inverted"
              THEN VContainer(<<5 * Scale, Scale, 2 * Scale>>,
                              <<0, 4 * Scale, 5 * Scale>>)
              ELSE VContainer(<<0, Scale, 2 * Scale>>,
                              <<3 * Scale, 4 * Scale, 5 * Scale>>)
         ELSE [kind |-> "dir"]] :
        l \in VFrameLists,
        bins \in {"missing", "ok", "inverted"} \X {"missing", "ok", "inverted"},
        clean \in BOOLEAN}
    \cup {[path \in {<<>>, <<"manifest.json">>} |->
              IF path = <<>> THEN [kind |-> "dir"]
              ELSE [kind |-> "file", text |-> "{"]]}

\* ---- pkl2web.py ----

\* a Frame as the reader builds it: detections is the dict of branch name
\* to detection list in insertion order, transform_metadata an empty dict
Frame(frame_id, points, ground_truth, detections) ==
    [frame_id |-> frame_id, points |-> points,
     point_count |-> Shape0(points), ground_truth |-> ground_truth,
     detections |-> detections, transform_metadata |-> [k \in {} |-> {}]]

\* "Apply downsampling", as if frame.point_count were left as the reader
\* set it
apply_downsampling_keeps_count(frame, ds, dry_run) ==
    [frame |-> IF ds.status = "ok"
               THEN [frame EXCEPT !.points = ds.points]
               ELSE frame,
     transform_metadata |-> IF ds.status = "ok"
                            THEN [k \in {"downsample"} |-> ds.metadata]
                            ELSE [k \in {} |-> {}],
     raised |-> IF ds.status \notin {"ok", "none"} /\ ~dry_run
                THEN [status |-> ds.status, error |-> ds.error]
                ELSE NoRet,
     trace |-> IF ds.status = "none" THEN <<>>
               ELSE <<[stage |-> "downsample", frame_id |-> frame.frame_id,
                       input |-> ds.input, status |-> ds.status,
                       output |-> IF ds.status = "ok" THEN ds.points
                                  ELSE NoRet]>>]

\* "Apply downsampling", given what downsample_points returned or raised
\* (NoRet when it was not called): the frame, the transform_metadata
\* collected so far, the exception that leaves the loop, if any, and the
\* calls made so far, in order, with their argument and result
apply_downsampling(frame, ds, dry_run) ==
    [frame |-> IF ds.status = "ok"
               THEN [frame EXCEPT !.points = ds.points,
                                  !.point_count = Shape0(ds.points)]
               ELSE frame,
     transform_metadata |-> IF ds.status = "ok"
                            THEN [k \in {"downsample"} |-> ds.metadata]
                            ELSE [k \in {} |-> {}],
     raised |-> IF ds.status \notin {"ok", "none"} /\ ~dry_run
                THEN [status |-> ds.status, error |-> ds.error]
                ELSE NoRet,
     trace |-> IF ds.status = "none" THEN <<>>
               ELSE <<[stage |-> "downsample", frame_id |-> frame.frame_id,
                       input |-> ds.input, status |-> ds.status,
                       output |-> IF ds.status = "ok" THEN ds.points
                                  ELSE NoRet]>>]

\* "Apply quantization" and "Store transform metadata", given what
\* quantize_points returned or raised (NoRet when it was not called)
store_quantized(staged, q, dry_run) ==
    IF staged.raised /= NoRet
    THEN [frame |-> staged.frame, raised |-> staged.raised,
          trace |-> staged.trace]
    ELSE IF q.status \notin {"ok", "none"} /\ ~dry_run
    THEN [frame |-> staged.frame,
          raised |-> [status |-> q.status, error |-> q.error],
          trace |-> Append(staged.trace,
                           [stage |-> "quantize",
                            frame_id |-> staged.frame.frame_id,
                            input |-> q.input, status |-> q.status,
                            output |-> NoRet])]
    ELSE [frame |->
              [staged.frame EXCEPT
                  !.points = IF q.status = "ok" THEN q.points ELSE @,
                  !.transform_metadata =
                      IF q.status = "ok"
                      THEN [k \in DOMAIN staged.transform_metadata
                                    \cup {"quantize"} |->
                               IF k = "quantize" THEN q.metadata
                               ELSE staged.transform_metadata[k]]
                      ELSE staged.transform_metadata],
          raised |-> NoRet,
          trace |-> IF q.status = "none" THEN staged.trace
                    ELSE Append(staged.trace,
                                [stage |-> "quantize",
                                 frame_id |-> staged.frame.frame_id,
                                 input |-> q.input, status |-> q.status,
                                 output |-> IF q.status = "ok" THEN q.points
                                            ELSE NoRet])]

\* if quantize != 'off': quantize_points on the points of the frame
apply_quantization(staged, quantize, dry_run) ==
    store_quantized(staged,
                    IF quantize /= "off" /\ staged.raised = NoRet
                    THEN quantize_points(staged.frame.points, quantize)
                             @@ [input |-> staged.frame.points]
                    ELSE NoRet,
                    dry_run)

\* the body of the loop, as if the quantizer were handed the points the
\* frame had before downsampling
convert_frame_quantizes_input(frame, downsample, quantize, dry_run) ==
    apply_quantization(
        [apply_downsampling(frame,
                            IF downsample \in {"100k", "50k"}
                            THEN downsample_points(frame.points, downsample,
                                                   <<>>)
                                     @@ [input |-> frame.points]
                            ELSE NoRet,
                            dry_run)
            EXCEPT !.frame.points = frame.points],
        quantize, dry_run)

\* the body of the loop of convert_frames on one frame: the frame as the
\* body leaves it and the exception that left the body, if any
convert_frame(frame, downsample, quantize, dry_run) ==
    apply_quantization(
        apply_downsampling(frame,
                           IF downsample \in {"100k", "50k"}
                           THEN downsample_points(frame.points, downsample,
                                                  <<>>)
                                    @@ [input |-> frame.points]
                           ELSE NoRet,
                           dry_run),
        quantize, dry_run)

\* what convert_frames leaves and returns, given what the loop body did
\* with each selected frame: done[k] for frame number first + k - 1.  An
\* exception ends the loop and leaves the later frames untouched.  trace
\* lists the calls of the transforms in the order the loop made them.
convert_result(pkl_frames, first, done, seq_id) ==
    LET failing == {k \in 1..Len(done) : done[k].raised /= NoRet}
        reached(k) == \A j \in failing : k <= j
        objects == [i \in 1..Len(pkl_frames) |->
                       IF i >= first /\ i - first + 1 <= Len(done)
                          /\ reached(i - first + 1)
                       THEN done[i - first + 1].frame
                       ELSE pkl_frames[i]]
        trace == Flatten([k \in 1..Len(done) |->
                             IF reached(k) THEN done[k].trace ELSE <<>>])
    IN  IF failing = {}
        THEN [status |-> "ok",
              objects |-> objects,
              frames |-> [k \in 1..Len(done) |-> objects[first + k - 1]],
              manifest |-> [version |-> "1.0", sequenceId |-> seq_id,
                            frames |-> <<>>],
              trace |-> trace]
        ELSE LET k == CHOOSE j \in failing : reached(j)
             IN  [status |-> done[k].raised.status,
                  error |-> done[k].raised.error,
                  objects |-> objects,
                  trace |-> trace]

\* convert_frames: the frames of the range are transformed in order, in
\* place
convert_frames(pkl_frames, seq_id, frames_range, downsample, quantize, dry_run) ==
    convert_result(
        pkl_frames, frames_range[1] + 1,
        [k \in 1..(Min2(frames_range[2] + 1, Len(pkl_frames))
                      - frames_range[1]) |->
            convert_frame(pkl_frames[frames_range[1] + k], downsample,
                          quantize, dry_run)],
        seq_id)

RECURSIVE emit_frames(_, _)
\* the loop of emit_output over the frames: the container, the ground
\* truth and the detections of each branch that has any.  out.fs is the
\* directory content and out.writes the files written so far, in order,
\* the containers with the array handed to write_points_bin.
emit_frames(converted, out) ==
    IF converted = <<>> THEN out
    ELSE LET frame == Head(converted)
             frame_id == frame.frame_id
             bin == write_points_bin(
                        frame.points,
                        <<"frames", FileName(frame_id, ".bin")>>, 0,
                        out.fs).fs
             gt == IF frame.ground_truth /= <<>>
                   THEN WithFile(bin, <<FileName(frame_id, ".gt.json")>>,
                                 [kind |-> "file",
                                  gt |-> frame.ground_truth])
                   ELSE bin
             written == {i \in 1..Len(frame.detections) :
                            frame.detections[i].detections /= <<>>}
             det_path(i) ==
                 <<FileName(frame_id,
                       ".det." \o frame.detections[i].branch \o ".json")>>
             det == [q \in DOMAIN gt \cup {det_path(i) : i \in written} |->
                        IF \E i \in written : det_path(i) = q
                        THEN LET i == CHOOSE j \in written :
                                     det_path(j) = q
                                        /\ \A l \in written :
                                              det_path(l) = q => l <= j
                             IN  [kind |-> "file",
                                  branch |-> frame.detections[i].branch,
                                  detections |->
                                      frame.detections[i].detections]
                        ELSE gt[q]]
             order == SelectSeq([i \in 1..Len(frame.detections) |-> i],
                                LAMBDA i : i \in written)
             writes ==
                 out.writes
                 \o <<[path |-> <<"frames", FileName(frame_id, ".bin")>>,
                       array |-> frame.points]>>
                 \o (IF frame.ground_truth /= <<>>
                     THEN <<[path |-> <<FileName(frame_id, ".gt.json")>>]>>
                     ELSE <<>>)
                 \o [j \in 1..Len(order) |-> [path |-> det_path(order[j])]]
         IN  emit_frames(Tail(converted), [fs |-> det, writes |-> writes])

\* FrameRef(id, point_count, ts, urls) of a frame
FrameRef(frame) ==
    LET written == SelectSeq(frame.detections,
                             LAMBDA d : d.detections /= <<>>)
    IN  [id |-> frame.frame_id,
         pointCount |-> frame.point_count,
         urls |-> [points |-> <<"frames", FileName(frame.frame_id, ".bin")>>,
                   gt |-> IF frame.ground_truth /= <<>>
                          THEN <<FileName(frame.frame_id, ".gt.json")>>
                          ELSE <<>>,
                   det |-> [i \in 1..Len(written) |-> written[i].branch]]]

\* emit_output, as if the manifest were written before the loop over the
\* frames
emit_output_manifest_first(converted_data, files, seq_id, dry_run) ==
    IF dry_run THEN [status |-> "ok", fs |-> files, writes |-> <<>>]
    ELSE LET made == [q \in DOMAIN files \cup {<<>>} |->
                         IF q = <<>> THEN [kind |-> "dir"] ELSE files[q]]
             converted == converted_data.frames
         IN  IF converted = <<>>
             THEN [status |-> "ValueError",
                   error |-> "No frames in converted data", fs |-> made,
                   writes |-> <<[path |-> <<>>]>>]
             ELSE LET frame == converted[Len(converted)]
                      manifest ==
                          [version |-> converted_data.manifest.version,
                           sequenceId |-> seq_id,
                           fps |-> 10,
                           branches |->
                               [i \in 1..Len(frame.detections) |->
                                   frame.detections[i].branch],
                           frames |-> [k \in 1..Len(converted) |->
                                          FrameRef(converted[k])]]
                  IN  emit_frames(
                          converted,
                          [fs |-> WithFile(made, <<"manifest.json">>,
                                           [kind |-> "file",
                                            manifest |-> manifest]),
                           writes |-> <<[path |-> <<>>],
                                        [path |-> <<"manifest.json">>,
                                         manifest |-> manifest]>>])
                      @@ [status |-> "ok"]

\* emit_output(converted_data, output_dir, seq_id, dry_run) on the
\* directory content files: the content it leaves and the directories and
\* files it made, in order
emit_output(converted_data, files, seq_id, dry_run) ==
    IF dry_run THEN [status |-> "ok", fs |-> files, writes |-> <<>>]
    ELSE LET made == [q \in DOMAIN files \cup {<<>>} |->
                         IF q = <<>> THEN [kind |-> "dir"] ELSE files[q]]
             converted == converted_data.frames
         IN  IF converted = <<>>
             THEN [status |-> "ValueError",
                   error |-> "No frames in converted data", fs |-> made,
                   writes |-> <<[path |-> <<>>]>>]
             ELSE LET frame == converted[Len(converted)]
                      manifest ==
                          [version |-> converted_data.manifest.version,
                           sequenceId |-> seq_id,
                           fps |-> 10,
                           branches |->
                               [i \in 1..Len(frame.detections) |->
                                   frame.detections[i].branch],
                           frames |-> [k \in 1..Len(converted) |->
                                          FrameRef(converted[k])]]
                      emitted == emit_frames(converted,
                                             [fs |-> made,
                                              writes |-> <<[path |-> <<>>]>>])
                  IN  [status |-> "ok",
                       fs |-> WithFile(emitted.fs, <<"manifest.json">>,
                                       [kind |-> "file",
                                        manifest |-> manifest]),
                       writes |-> Append(emitted.writes,
                                         [path |-> <<"manifest.json">>,
                                          manifest |-> manifest])]

\* pkl_data.frames: up to MaxFrames frames, numbered in order.  The cloud
\* of a frame is empty, (N, 3) or (N, 4) above both targets; its
\* detections are none, or two branches of which one found nothing.
PFrameLists ==
    LET clouds == {DsCloud(0, 3), DsCloud(MaxPoints, 3),
                   DsCloud(MaxPoints, 4)}
        detections ==
            {<<>>,
             <<[branch |-> "b1", detections |-> <<"d1">>],
               [branch |-> "b2", detections |-> <<>>]>>}
    IN  {[i \in 1..Len(l) |->
             Frame(FrameId(i - 1), l[i][1],
                   IF l[i][2] = <<>> THEN <<>>
                   ELSE <<[id |-> "g1", yaw |-> 0]>>, l[i][2])] :
            l \in SeqsUpTo(clouds \X detections, MaxFrames)}

\* main, first part: the data is read and convert_frames is called
ConvertFramesCall ==
    /\ unit = "pipeline"
    /\ cv_call = NoCall
    /\ \E pkl_frames \in PFrameLists, frames_range \in {<<0, 1>>, <<1, 1>>},
          downsample \in {"100k", "50k"}, quantize \in {"off", "fp16", "int16"},
          dry_run \in BOOLEAN :
        LET ret == convert_frames(pkl_frames, "seq", frames_range,
                                  downsample, quantize, dry_run)
        IN  /\ cv_call' = [fn |-> "convert_frames", frames |-> pkl_frames,
                           frames_range |-> frames_range,
                           downsample |-> downsample, quantize |-> quantize,
                           dry_run |-> dry_run]
            /\ frames' = ret.objects
            /\ cv_ret' = ret
    /\ UNCHANGED em_ret
    /\ UNCHANGED <<arg_after, vVars, envVars, eVars, ioVars>>
    /\ UNCHANGED dsVars
    /\ UNCHANGED qVars

\* what main returns: 0 after convert_frames and emit_output returned, and
\* 1 after either raised (emitted is NoRet when emit_output was not reached)
main_returns(converted, emitted) ==
    IF converted.status = "ok" /\ emitted /= NoRet /\ emitted.status = "ok"
    THEN 0 ELSE 1

\* main, second part, as if emit_output were called without dry_run
EmitOutputCall_without_dry_run ==
    /\ unit = "pipeline"
    /\ cv_ret /= NoRet
    /\ cv_ret.status = "ok"
    /\ em_ret = NoRet
    /\ LET ret == emit_output(cv_ret, fs, "seq", FALSE)
       IN  /\ em_ret' = [status |-> ret.status, writes |-> ret.writes]
           /\ fs' = ret.fs
    /\ UNCHANGED <<frames, cv_call, cv_ret>>
    /\ UNCHANGED <<w_call, w_ret>>
    /\ UNCHANGED <<arg_after, vVars, envVars, eVars>>
    /\ UNCHANGED dsVars
    /\ UNCHANGED qVars

\* main, second part: emit_output on what convert_frames returned
EmitOutputCall ==
    /\ unit = "pipeline"
    /\ cv_ret /= NoRet
    /\ cv_ret.status = "ok"
    /\ em_ret = NoRet
    /\ LET ret == emit_output(cv_ret, fs, "seq", cv_call.dry_run)
       IN  /\ em_ret' = [status |-> ret.status, writes |-> ret.writes]
           /\ fs' = ret.fs
    /\ UNCHANGED <<frames, cv_call, cv_ret>>
    /\ UNCHANGED <<w_call, w_ret>>
    /\ UNCHANGED <<arg_after, vVars, envVars, eVars>>
    /\ UNCHANGED dsVars
    /\ UNCHANGED qVars

\* one call of validate_point_counts on a manifest
ValidatePointCountsCall ==
    /\ unit = "checks"
    /\ v_call = NoCall
    /\ \E l \in SeqsUpTo({[id |-> FrameId(n), pointCount |-> c] :
                              n \in 0..1,
                              c \in {0, Target50k, Target50k + 1,
                                     2 * Target50k + 1}}, MaxFrames),
          tier \in {"full", "fallback"} :
        /\ v_call' = [fn |-> "validate_point_counts",
                      manifest |-> [frames |-> l], tier |-> tier]
        /\ v_ret' = validate_point_counts([frames |-> l], tier)
    /\ UNCHANGED <<arg_after, envVars, eVars, ioVars, pVars>>
    /\ UNCHANGED dsVars
    /\ UNCHANGED qVars

\* one call of validate_frame_ordering on a manifest
ValidateFrameOrderingCall ==
    /\ unit = "checks"
    /\ v_call = NoCall
    /\ \E l \in SeqsUpTo({[id |-> FrameId(n)] : n \in 0..2}, MaxFrames + 1) :
        /\ v_call' = [fn |-> "validate_frame_ordering",
                      manifest |-> [frames |-> l]]
        /\ v_ret' = validate_frame_ordering([frames |-> l])
    /\ UNCHANGED <<arg_after, envVars, eVars, ioVars, pVars>>
    /\ UNCHANGED dsVars
    /\ UNCHANGED qVars

\* one call of validate_aabb_ranges on an output directory and its manifest
ValidateAabbRangesCall ==
    /\ unit = "validate"
    /\ v_call = NoCall
    /\ "manifest" \in DOMAIN fs[<<"manifest.json">>]
    /\ v_call' = [fn |-> "validate_aabb_ranges",
                  manifest |-> fs[<<"manifest.json">>].manifest]
    /\ v_ret' = validate_aabb_ranges(fs, fs[<<"manifest.json">>].manifest)
    /\ UNCHANGED <<arg_after, envVars, eVars, ioVars, pVars>>
    /\ UNCHANGED dsVars
    /\ UNCHANGED qVars

\* one call of run_validators: on a directory that is there, or on what
\* emit_output wrote
RunValidatorsCall ==
    /\ \/ unit = "validate"
       \/ unit = "pipeline" /\ em_ret /= NoRet /\ em_ret.status = "ok"
              /\ ~cv_call.dry_run
    /\ v_call = NoCall
    /\ \E args \in ({<<"manifest.json">>} \X {"full", "fallback"} \X {1, 2})
                    \cup {<<<<"nonexistent", "manifest.json">>, "full", 1>>} :
        /\ v_call' = [fn |-> "run_validators", manifest_path |-> args[1],
                      tier |-> args[2], expected_frame_count |-> args[3]]
        /\ v_ret' = run_validators(fs, args[1], args[2], args[3])
    /\ UNCHANGED <<arg_after, envVars, eVars, ioVars, pVars>>
    /\ UNCHANGED dsVars
    /\ UNCHANGED qVars

\* ---- normalize_manifest_branches.py ----

\* the branch names of the model, in alphabetical order
BranchNames == <<"b1", "b2", "b3">>

\* sorted(det_map.keys()), the keys of a dict being pairwise different
sorted_keys(keys) ==
    SelectSeq(BranchNames, LAMBDA b : \E i \in 1..Len(keys) : keys[i] = b)

\* the elements of a list
ToSet(s) == {s[i] : i \in 1..Len(s)}

\* normalize_manifest_branches(seq_dir) on the directory content files: what
\* it returned or raised and the content it leaves
normalize_manifest_branches(files) ==
    IF <<"manifest.json">> \notin DOMAIN files
    THEN [status |-> "FileNotFoundError", fs |-> files]
    ELSE IF "manifest" \notin DOMAIN files[<<"manifest.json">>]
    THEN [status |-> "JSONDecodeError", fs |-> files]
    ELSE
    LET manifest == files[<<"manifest.json">>].manifest
        frame_refs == IF "frames" \in DOMAIN manifest THEN manifest.frames
                      ELSE <<>>
    IN  IF frame_refs = <<>>
        THEN [status |-> "ValueError", fs |-> files]
        ELSE
        LET det_map == frame_refs[1].urls.det
            actual_branches == sorted_keys(det_map)
            current_branches == IF "branches" \in DOMAIN manifest
                                THEN manifest.branches ELSE <<>>
        IN  IF det_map = <<>>
            THEN [status |-> "ok", fs |-> files]
            ELSE IF ToSet(current_branches) = ToSet(actual_branches)
            THEN [status |-> "ok", fs |-> files]
            ELSE [status |-> "ok",
                  fs |-> [files EXCEPT ![<<"manifest.json">>].manifest =
                             [k \in DOMAIN manifest \cup {"branches"} |->
                                 IF k = "branches" THEN actual_branches
                                 ELSE manifest[k]]]]

\* sequence directories: none, one whose manifest is no JSON, and those
\* with a manifest of no, one or two frames, the first frame with detection
\* files of none, one or two branches in either order, and a branches array
\* that is absent, empty, in either order, repeats a name or names another
NDirs ==
    LET dets == {<<>>, <<"b1">>, <<"b1", "b2">>, <<"b2", "b1">>}
        ref(n, det) == [id |-> FrameId(n), pointCount |-> Target50k,
                        urls |-> [points |-> <<"frames",
                                               FileName(FrameId(n), ".bin")>>,
                                  gt |-> <<>>, det |-> det]]
        lists == {<<>>} \cup {<<ref(0, d)>> : d \in dets}
                 \cup {<<ref(0, d), ref(1, <<"b3">>)>> : d \in dets}
        manifests ==
            {[version |-> "1.0", sequenceId |-> "seq", frames |-> l] :
                 l \in lists}
            \cup {[version |-> "1.0", sequenceId |-> "seq", frames |-> l,
                   branches |-> b] :
                      l \in lists,
                      b \in {<<>>, <<"b1">>, <<"b1", "b2">>, <<"b2", "b1">>,
                             <<"b1", "b1", "b2">>, <<"b3">>}}
    IN  {NoFiles,
         WithFile(NoFiles, <<"manifest.json">>,
                  [kind |-> "file", text |-> "{"])}
        \cup {WithFile(NoFiles, <<"manifest.json">>,
                       [kind |-> "file", manifest |-> m]) : m \in manifests}

\* one run of the tool, on a sequence directory that is there or on what
\* emit_output wrote; the tool may be run again
NormalizeCall ==
    /\ \/ unit = "normalize"
       \/ unit = "pipeline" /\ em_ret /= NoRet /\ em_ret.status = "ok"
              /\ ~cv_call.dry_run
    /\ v_call.fn \in {"none", "normalize_manifest_branches"}
    /\ ncalls < 2
    /\ ncalls' = ncalls + 1
    /\ v_call' = [fn |-> "normalize_manifest_branches", before |-> fs]
    /\ LET ret == normalize_manifest_branches(fs)
       IN  /\ v_ret' = [status |-> ret.status]
           /\ fs' = ret.fs
    /\ UNCHANGED <<ds_call, ds_ret, ds_saved>>
    /\ UNCHANGED <<w_call, w_ret>>
    /\ UNCHANGED <<arg_after, envVars, eVars, pVars>>
    /\ UNCHANGED qVars

\* before any call, nothing has been called, returned, staged or written
Idle ==
    /\ ncalls = 0
    /\ ds_call = NoCall
    /\ ds_ret = NoRet
    /\ ds_saved = [has |-> FALSE]
    /\ q_call = NoCall
    /\ quant = NoRet
    /\ deq = NoRet
    /\ qerr = NoRet
    /\ dq_call = NoCall
    /\ dq_ret = NoRet
    /\ e_call = NoCall
    /\ e_ret = NoRet
    /\ w_call = NoCall
    /\ w_ret = NoRet
    /\ frames = <<>>
    /\ cv_call = NoCall
    /\ cv_ret = NoRet
    /\ em_ret = NoRet
    /\ v_call = NoCall
    /\ v_ret = NoRet
    /\ arg_after = NoRet

\* a process exercises downsample.py under any generator stream, or
\* quantize.py under either behaviour of numpy's cast, or the int16
\* quantizer on extreme coordinates under any outcome of the undefined
\* casts, or the error statistics on arrays of its own
Init ==
    /\ \/ unit = "downsample" /\ rngStream \in 0..(Streams - 1)
                             /\ castWarns = FALSE
       \/ unit = "quantize" /\ rngStream = 0 /\ castWarns \in BOOLEAN
       \/ unit = "extreme" /\ rngStream = 0 /\ castWarns = FALSE
       \/ unit = "error" /\ rngStream = 0 /\ castWarns = FALSE
    /\ castInvalid \in IF unit = "extreme"
                       THEN [nan : CastOutcomes, inf : CastOutcomes]
                       ELSE {[nan |-> 0, inf |-> 0]}
    /\ fs = NoFiles
    /\ Idle

Next ==
    \/ ErrorDirectCall
    \/ DownsampleCall
    \/ GetTargetCountCall
    \/ QuantizeCall
    \/ DequantizeCall
    \/ ErrorCall
    \/ DequantizeWithCall

\* a process exercises the writer, or the converter, or the checks of the
\* validators on manifests, or the validators on an output directory that
\* is there, or the branch normalizer on a sequence directory
OutputInit ==
    /\ unit \in {"writer", "pipeline", "checks", "validate", "normalize"}
    /\ rngStream = 0
    /\ castWarns = FALSE
    /\ castInvalid = [nan |-> 0, inf |-> 0]
    /\ IF unit = "validate" THEN fs \in VDirs
       ELSE IF unit = "normalize" THEN fs \in NDirs
       ELSE fs = NoFiles
    /\ Idle

OutputNext ==
    \/ ValidatePointCountsCall
    \/ ValidateFrameOrderingCall
    \/ ValidateAabbRangesCall
    \/ RunValidatorsCall
    \/ NormalizeCall
    \/ ConvertFramesCall
    \/ EmitOutputCall
    \/ WritePointsBinCall
    \/ ComputeAabbCall
    \/ LoadPointCloudCall

Spec == Init /\ [][Next]_vars

OutputSpec == OutputInit /\ [][OutputNext]_vars

-----------------------------------------------------------------------------
(* Properties of the downsampler *)

\* a point cloud: a 2-D array of width 3 or more
IsCloud(a) == a.ndim = 2 /\ a.ncols >= 3

\* the latest call is downsample_points on a point cloud with a recognized tier
DsValidCall ==
    /\ ds_call.fn = "downsample_points"
    /\ ds_call.target_tier \in {"100k", "50k"}
    /\ IsCloud(ds_call.points)

DsTarget == tier_map[ds_call.target_tier]
DsN == Shape0(ds_call.points)

\* C1: a cloud with more points than the tier's target count comes back with
\* M points, |M - target| <= 1% of target and M <= N, and the metadata
\* reports method 'random' and within_spec = true.
C1_SampledWithinTolerance ==
    (DsValidCall /\ DsN > DsTarget) =>
        /\ ds_ret.status = "ok"
        /\ LET M == Shape0(ds_ret.points)
           IN  /\ 100 * Abs(M - DsTarget) <= DsTarget
               /\ M <= DsN
               /\ ds_ret.metadata.final_count = M
        /\ ds_ret.metadata.method = "random"
        /\ ds_ret.metadata.within_spec = TRUE

C1_Witness ==
    /\ DsValidCall
    /\ DsN > DsTarget
    /\ ds_call.target_tier = "100k"
    /\ ds_ret.status = "ok"
    /\ ds_ret.metadata.method = "random"

\* C2: a cloud with at most the target count of points, the empty cloud
\* included, comes back unchanged, with method 'none', final_count =
\* original_count = N, within_spec = true and a reason; nothing is sampled.
C2_AtOrBelowTargetUnchanged ==
    (DsValidCall /\ DsN <= DsTarget) =>
        /\ ds_ret.status = "ok"
        /\ ds_ret.points = ds_call.points
        /\ ds_ret.metadata.method = "none"
        /\ ds_ret.metadata.final_count = DsN
        /\ ds_ret.metadata.original_count = DsN
        /\ ds_ret.metadata.within_spec = TRUE
        /\ "reason" \in DOMAIN ds_ret.metadata
        /\ ds_ret.metadata.reason /= ""
        /\ ds_ret.sampled = FALSE

C2_Witness ==
    /\ DsValidCall
    /\ DsN = DsTarget
    /\ ds_ret.status = "ok"
    /\ ds_ret.points = ds_call.points
    /\ ds_ret.metadata.method = "none"

\* a call with the seed the callee uses written out
WithSeed(c) ==
    IF c.fn = "downsample_points" /\ c.seedArg = <<>>
    THEN [c EXCEPT !.seedArg = <<42>>]
    ELSE c

\* C3: two calls of downsample_points with the same cloud, tier and seed
\* return the same points and metadata, whatever was called before or in
\* between; a call without a seed is a call with seed 42.
C3_Deterministic ==
    (/\ ds_saved.has
     /\ ds_call.fn = "downsample_points"
     /\ ds_saved.call.fn = "downsample_points"
     /\ WithSeed(ds_saved.call) = WithSeed(ds_call))
        => ds_saved.ret = ds_ret

C3_Witness ==
    /\ ds_saved.has
    /\ ds_call.fn = "downsample_points"
    /\ ds_saved.call.fn = "downsample_points"
    /\ ds_saved.call.seedArg = <<>>
    /\ ds_call.seedArg = <<42>>
    /\ WithSeed(ds_saved.call) = WithSeed(ds_call)
    /\ ncalls - ds_saved.at >= 2
    /\ ds_ret.status = "ok"
    /\ ds_ret.sampled
    /\ ds_saved.ret = ds_ret

StrictlyAscending(s) == \A i \in 1..(Len(s) - 1) : s[i] < s[i + 1]

\* the place of a row in a cloud whose rows are pairwise different
RowIndex(a, row) == CHOOSE i \in 1..Len(a.rows) : a.rows[i] = row

\* C4: when downsample_points samples, the selected indices are distinct,
\* lie in 0..N-1 and ascend, each output point is the input point at its
\* index, and so the kept points keep their relative order.
C4_SortedSubsequence ==
    (DsValidCall /\ ds_ret.status = "ok" /\ ds_ret.sampled) =>
        LET idx == ds_ret.indices
            out == ds_ret.points.rows
            inp == ds_call.points.rows
        IN  /\ \A i \in 1..Len(idx) : idx[i] \in 0..(DsN - 1)
            /\ \A i, j \in 1..Len(idx) : i /= j => idx[i] /= idx[j]
            /\ StrictlyAscending(idx)
            /\ Len(out) = Len(idx)
            /\ \A k \in 1..Len(out) : out[k] = inp[idx[k] + 1]
            /\ \A k \in 1..Len(out) : \E i \in 1..Len(inp) : out[k] = inp[i]
            /\ StrictlyAscending(
                   [k \in 1..Len(out) |-> RowIndex(ds_call.points, out[k])])

\* the generator drew the indices out of order and the result is in order
C4_Witness ==
    /\ DsValidCall
    /\ ds_ret.status = "ok"
    /\ ds_ret.sampled
    /\ ~StrictlyAscending(
           choice(default_rng(WithSeed(ds_call).seedArg[1]), DsN, DsTarget))
    /\ StrictlyAscending(ds_ret.indices)

-----------------------------------------------------------------------------
(* Properties of argument checking *)

\* a failed call: a ValueError was raised and nothing was returned
Rejected(ret) ==
    /\ ret.status = "ValueError"
    /\ DOMAIN ret = {"status", "error"}

-----------------------------------------------------------------------------
(* Properties of the quantizer *)

\* the latest call is quantize_points on a point cloud in the given mode
QCloudCall(mode) ==
    /\ q_call.fn = "quantize_points"
    /\ q_call.mode = mode
    /\ IsCloud(q_call.points)

QN == Len(q_call.points.rows)

\* every spatial coordinate of the cloud lies in [-bound, bound]
SpatialWithin(a, bound) ==
    \A i \in 1..Len(a.rows), k \in 1..3 : Abs(a.rows[i][k]) <= bound

\* every intensity of the cloud, if it has intensities, lies in [0, 1]
IntensityWithinUnit(a) ==
    a.ncols > 3 => \A i \in 1..Len(a.rows) :
                       0 <= a.rows[i][4] /\ a.rows[i][4] <= One

\* a float statistic is below n grid units
FloatBelow(x, n) == ~FloatLeq(FloatOf(n), x)

C7_HalfBytesPerPoint ==
    (QCloudCall("fp16") /\ q_call.points.ncols \in {3, 4}) =>
        /\ quant.status = "ok"
        /\ 2 * quant.metadata.bytes_per_point = 4 * q_call.points.ncols
        /\ quant.metadata.compression = Half

\* C8: in fp16 mode, a cloud with a coordinate of magnitude above 65504 makes
\* quantize_points give the caller a warning.
C8_OverflowWarned ==
    (QCloudCall("fp16")
         /\ \E i \in 1..Len(Elements(q_call.points)) :
                Abs(Elements(q_call.points)[i]) > Fp16Max * Scale) =>
        /\ quant.status = "ok"
        /\ quant.warnings /= <<>>

\* C9: in 'off' mode quantize_points returns the points it was given, with
\* an envelope of mode 'off', dtype float32 and compression 1.0, and
\* dequantize_points with that envelope returns the same values.
C9_OffIdentity ==
    QCloudCall("off") =>
        /\ quant.status = "ok"
        /\ quant.points = q_call.points
        /\ quant.metadata.mode = "off"
        /\ quant.metadata.dtype = "float32"
        /\ quant.metadata.compression = One
        /\ deq /= NoRet =>
               /\ deq.status = "ok"
               /\ Shape(deq.points) = Shape(q_call.points)
               /\ Elements(deq.points) = Elements(q_call.points)

\* a full cloud holding a value float16 cannot represent came back as it was
C9_Witness ==
    /\ QCloudCall("off")
    /\ QN = MaxQPoints
    /\ \E i \in 1..Len(Elements(q_call.points)) :
           ToFp16(Elements(q_call.points)[i]) /= Elements(q_call.points)[i]
    /\ deq.status = "ok"
    /\ Elements(deq.points) = Elements(q_call.points)

\* the axes on which all points of a cloud share their coordinate
ZeroExtentAxes(a) ==
    {k \in 1..3 : \A i, j \in 1..Len(a.rows) : a.rows[i][k] = a.rows[j][k]}

\* C10: in int16 mode, for a non-empty cloud and each of its axes of zero
\* extent, quantize_points uses extent 1.0 for the axis and divides nothing by
\* zero, and dequantize_points gives every point its original coordinate on
\* that axis.
C10_ZeroExtentAxis ==
    (QCloudCall("int16") /\ QN > 0) =>
        \A k \in ZeroExtentAxes(q_call.points) :
            /\ quant.status = "ok"
            /\ quant.bbox_range[k] = One
            /\ ~quant.fp_invalid
            /\ deq /= NoRet =>
                   /\ deq.status = "ok"
                   /\ \A i \in 1..QN :
                          deq.points.rows[i][k] = q_call.points.rows[i][k]

\* two different points that share one coordinate went through the round trip
C10_Witness ==
    /\ QCloudCall("int16")
    /\ QN = 2
    /\ q_call.points.rows[1] /= q_call.points.rows[2]
    /\ ZeroExtentAxes(q_call.points) /= {}
    /\ ZeroExtentAxes(q_call.points) /= 1..3
    /\ deq.status = "ok"
    /\ \A k \in ZeroExtentAxes(q_call.points) :
           /\ quant.bbox_range[k] = One
           /\ deq.points.rows[1][k] = q_call.points.rows[1][k]

\* a call that raised and returned nothing
Failed(ret) ==
    /\ ret.status \notin {"ok", "none"}
    /\ DOMAIN ret = {"status", "error"}

\* the mode an envelope declares
EnvelopeMode(metadata) ==
    IF "mode" \in DOMAIN metadata THEN metadata.mode ELSE "None"

\* C11: dequantize_points raises and returns no array when the envelope's
\* mode is missing or not 'off', 'fp16' or 'int16', and when the mode is
\* 'int16' and bbox_min or bbox_max is missing, although the quantize call
\* before it computed them; with the envelope quantize_points returned it
\* gives what it gave before.
C11_DequantizeRejects ==
    dq_call.fn = "dequantize_points" =>
        LET metadata == dq_call.metadata
        IN  /\ EnvelopeMode(metadata) \notin {"off", "fp16", "int16"} =>
                   (Failed(dq_ret) /\ dq_ret.status = "ValueError")
            /\ (EnvelopeMode(metadata) = "int16"
                    /\ ("bbox_min" \notin DOMAIN metadata
                            \/ "bbox_max" \notin DOMAIN metadata)) =>
                   (Failed(dq_ret) /\ dq_ret.status = "KeyError")
            /\ metadata = quant.metadata => dq_ret = deq

\* an int16 envelope lost a corner that the quantize call had computed
C11_Witness ==
    /\ dq_call.fn = "dequantize_points"
    /\ q_call.mode = "int16"
    /\ QN = MaxQPoints
    /\ deq.status = "ok"
    /\ "bbox_max" \in DOMAIN quant.metadata
    /\ "bbox_max" \notin DOMAIN dq_call.metadata
    /\ Failed(dq_ret)

\* ---- C12 ----

\* the statistics are ordered as mean_error <= rmse <= max_error
StatsOrdered(ret) ==
    /\ FloatLeq(ret.stats.mean_error, ret.stats.rmse)
    /\ FloatLeq(ret.stats.rmse, ret.stats.max_error)

\* C12: for every pair of arrays of equal shape with at least one
\* element, compute_quantization_error returns statistics with
\* mean_error <= rmse <= max_error
C12_StatsOrdered ==
    /\ (e_ret /= NoRet /\ e_ret.status = "ok") => StatsOrdered(e_ret)
    /\ (qerr /= NoRet /\ qerr.status = "ok") => StatsOrdered(qerr)

\* ---- C13 ----

\* lo-hi is the box of the rows: the zero box for no rows, else every row
\* lies inside it and each face of the box is touched by some row
IsAabbOf(lo, hi, rows) ==
    /\ rows = <<>> => lo = <<0, 0, 0>> /\ hi = <<0, 0, 0>>
    /\ Len(rows) = 1 => lo = rows[1] /\ hi = rows[1]
    /\ rows /= <<>> =>
        \A k \in 1..3 :
            /\ lo[k] <= hi[k]
            /\ \A i \in 1..Len(rows) : lo[k] <= rows[i][k] /\ rows[i][k] <= hi[k]
            /\ \E i \in 1..Len(rows) : rows[i][k] = lo[k]
            /\ \E i \in 1..Len(rows) : rows[i][k] = hi[k]

\* C13: the AABB of the empty cloud is (0,0,0)-(0,0,0), of a single point
\* P it is (P, P), and of any cloud with points it is the componentwise
\* minimum and maximum, so min <= max and every point lies inside
C13_AabbIsComponentwiseMinMax ==
    /\ w_call.fn = "compute_aabb" =>
        IsAabbOf(w_ret.aabb.min, w_ret.aabb.max, SpatialRows(w_call.points))
    /\ w_call.fn = "load_point_cloud" =>
        IsAabbOf(w_ret.loaded.min_bounds, w_ret.loaded.max_bounds,
                 [i \in 1..(Len(w_call.data) \div 3) |->
                     SubSeq(w_call.data, 3 * i - 2, 3 * i)])

\* a file of three different points was loaded and its box has an extent
\* on every axis
C13_Witness ==
    /\ w_call.fn = "load_point_cloud"
    /\ Len(w_ret.loaded.points) = 3
    /\ \A k \in 1..3 : w_ret.loaded.min_bounds[k] < w_ret.loaded.max_bounds[k]

\* ---- C14 ----

\* C14: the header read back from a written container holds the mode tag
\* that was passed, the number of points of the array and the AABB of the
\* array that was serialized; header_size is 29 and file_size is 29 plus
\* the size of the payload
C14_HeaderRoundTrip ==
    (w_call.fn = "write_points_bin" /\ w_ret.status = "ok") =>
        LET content == fs[w_call.path]
            header == read_header(content)
        IN  /\ header.mode = w_call.mode
            /\ header.count = Len(w_call.points.rows)
            /\ IsAabbOf(header.min, header.max, content.payload)
            /\ IsAabbOf(header.min, header.max, SpatialRows(w_call.points))
            /\ w_ret.result.point_count = header.count
            /\ w_ret.result.header_size = 29
            /\ w_ret.result.file_size = 29 + 4 * 3 * Len(content.payload)

\* a cloud of three points was written with mode tag 1 below directories
\* that did not exist
C14_Witness ==
    /\ w_call.fn = "write_points_bin"
    /\ w_call.mode = 1
    /\ Len(w_call.path) = 3
    /\ Len(w_call.points.rows) = 3
    /\ fs[<<"subdir", "nested">>].kind = "dir"
    /\ read_header(fs[w_call.path]).count = 3

\* ---- C15 ----

\* C15: after downsampling, int16 quantization and the write, the AABB in
\* the header of a frame's container is the bbox_min / bbox_max of the
\* frame's quantization envelope
C15_HeaderAabbIsEnvelopeBbox ==
    (em_ret /= NoRet /\ em_ret.status = "ok" /\ ~cv_call.dry_run
        /\ cv_call.quantize = "int16") =>
        \A k \in 1..Len(cv_ret.frames) :
            LET frame == cv_ret.frames[k]
                header == read_header(
                    fs[<<"frames", FileName(frame.frame_id, ".bin")>>])
                envelope == frame.transform_metadata["quantize"]
            IN  /\ header.min = envelope.bbox_min
                /\ header.max = envelope.bbox_max

\* ---- C16 ----

\* whether run_validators was called with a manifest it can load
Loadable ==
    /\ v_call.manifest_path \in DOMAIN fs
    /\ "manifest" \in DOMAIN fs[v_call.manifest_path]

\* what each check returns by itself on the inputs of the run_validators
\* call
CheckAlone(c) ==
    LET manifest == fs[v_call.manifest_path].manifest
    IN  IF c = "frame_count"
        THEN validate_frame_count(manifest, v_call.expected_frame_count)
        ELSE IF c = "point_counts"
        THEN validate_point_counts(manifest, v_call.tier)
        ELSE IF c = "aabb" THEN validate_aabb_ranges(fs, manifest)
        ELSE IF c = "yaw" THEN validate_yaw_sanity(fs, manifest)
        ELSE IF c = "ordering" THEN validate_frame_ordering(manifest)
        ELSE validate_detector_coverage(manifest)

\* C16: for a loadable manifest the report of run_validators holds the
\* result of each of the six checks, whatever the earlier checks found,
\* and all their errors and warnings; without a loadable manifest it holds
\* one error, no check result and a summary that mentions the manifest
C16_NoShortCircuit ==
    v_call.fn = "run_validators" =>
        IF Loadable
        THEN /\ DOMAIN v_ret.checks =
                    {"frame_count", "point_counts", "aabb", "yaw",
                     "ordering", "coverage"}
             /\ \A c \in DOMAIN v_ret.checks : v_ret.checks[c] = CheckAlone(c)
             /\ \A c \in DOMAIN v_ret.checks :
                    /\ \A k \in 1..Len(CheckAlone(c).errors) :
                           \E n \in 1..Len(v_ret.errors) :
                               v_ret.errors[n] = CheckAlone(c).errors[k]
                    /\ \A k \in 1..Len(CheckAlone(c).warnings) :
                           \E n \in 1..Len(v_ret.warnings) :
                               v_ret.warnings[n] = CheckAlone(c).warnings[k]
        ELSE /\ DOMAIN v_ret.checks = {}
             /\ Len(v_ret.errors) = 1
             /\ v_ret.warnings = <<>>
             /\ v_ret.summary = "manifest could not be loaded"

\* the first check failed, later checks failed too and gave a warning
C16_Witness ==
    /\ v_call.fn = "run_validators"
    /\ Loadable
    /\ ~v_ret.checks["frame_count"].valid
    /\ ~v_ret.checks["aabb"].valid
    /\ ~v_ret.checks["ordering"].valid
    /\ v_ret.checks["yaw"].warnings /= <<>>
    /\ Len(v_ret.errors) >= 3

\* ---- C17 ----

\* the frames of the manifest of the call, and those that break the
\* point-count budget of the tier of the call
VFrames == v_call.manifest.frames

OverBudget ==
    {i \in 1..Len(VFrames) :
        \/ VFrames[i].pointCount <= 0
        \/ VFrames[i].pointCount >
               (IF v_call.tier = "full" THEN 2 * Target50k ELSE Target50k)}

\* C17: the point-count check passes iff every frame has more than 0 and
\* at most ceiling(tier) points; every other frame has an error line of
\* its own
C17_PointCountBudget ==
    v_call.fn = "validate_point_counts" =>
        /\ v_ret.valid <=> OverBudget = {}
        /\ Len(v_ret.errors) = Cardinality(OverBudget)
        /\ \A i \in OverBudget :
               \E k \in 1..Len(v_ret.errors) :
                   v_ret.errors[k].frame = VFrames[i].id
        /\ (\E i \in 1..Len(VFrames) : VFrames[i].pointCount = 0)
               => ~v_ret.valid

\* a frame without points and a frame between the two ceilings, checked
\* for the lower tier
C17_Witness ==
    /\ v_call.fn = "validate_point_counts"
    /\ v_call.tier = "fallback"
    /\ \E i, j \in 1..Len(VFrames) :
           /\ VFrames[i].pointCount = 0
           /\ VFrames[j].pointCount = Target50k + 1
    /\ Len(v_ret.errors) = 2

\* ---- C18 ----

\* the adjacent pairs of the frame list that do not increase
OutOfOrder ==
    {i \in 1..(Len(VFrames) - 1) :
        FrameNumber(VFrames[i].id) >= FrameNumber(VFrames[i + 1].id)}

\* C18: the frame-ordering check passes iff the frame list is not empty
\* and its ids increase strictly; every adjacent pair out of order has an
\* error that names both ids
C18_StrictlyIncreasingIds ==
    v_call.fn = "validate_frame_ordering" =>
        /\ v_ret.valid <=> (VFrames /= <<>> /\ OutOfOrder = {})
        /\ \A i \in OutOfOrder :
               \E k \in 1..Len(v_ret.errors) :
                   v_ret.errors[k].ids = <<VFrames[i].id, VFrames[i + 1].id>>

\* three frames of which the second repeats the first and the third goes
\* back
C18_Witness ==
    /\ v_call.fn = "validate_frame_ordering"
    /\ Len(VFrames) = 3
    /\ VFrames[1].id = VFrames[2].id
    /\ FrameNumber(VFrames[3].id) < FrameNumber(VFrames[2].id)
    /\ Len(v_ret.errors) = 2

\* ---- C19 ----

\* the frames whose container is missing, and those whose header has
\* min > max on some axis
ContainerPath(i) == <<"frames", FileName(VFrames[i].id, ".bin")>>

MissingFrames == {i \in 1..Len(VFrames) : ContainerPath(i) \notin DOMAIN fs}

InvertedFrames ==
    {i \in 1..Len(VFrames) \ MissingFrames :
        \E k \in 1..3 : fs[ContainerPath(i)].header[1 + k]
                             > fs[ContainerPath(i)].header[4 + k]}

\* C19: the AABB check has a 'file not found' error for every frame
\* without a container and an 'inverted bounds' error for every frame
\* whose header has min > max, whatever it found for the frames before,
\* and passes iff there is no such frame
C19_AabbSanity ==
    v_call.fn = "validate_aabb_ranges" =>
        /\ \A i \in MissingFrames :
               \E k \in 1..Len(v_ret.errors) :
                   /\ v_ret.errors[k].frame = VFrames[i].id
                   /\ v_ret.errors[k].message = "file not found"
        /\ \A i \in InvertedFrames :
               \E k \in 1..Len(v_ret.errors) :
                   /\ v_ret.errors[k].frame = VFrames[i].id
                   /\ v_ret.errors[k].message = "inverted bounds"
        /\ Len(v_ret.errors) = Cardinality(MissingFrames \cup InvertedFrames)
        /\ v_ret.valid <=> (MissingFrames \cup InvertedFrames = {})

\* the container of the first frame is missing and the header of the
\* second is inverted
C19_Witness ==
    /\ v_call.fn = "validate_aabb_ranges"
    /\ Len(VFrames) = 2
    /\ 1 \in MissingFrames
    /\ 2 \in InvertedFrames
    /\ Len(v_ret.errors) = 2

\* ---- C20 ----

\* C20: after downsample_points or quantize_points returns, with any tier
\* and any mode, the array that was passed in holds the values it held
\* before the call
C20_InputNotMutated ==
    /\ (unit = "downsample" /\ ds_call.fn = "downsample_points")
           => arg_after = ds_call.points
    /\ (unit = "quantize" /\ q_call /= NoCall) => arg_after = q_call.points

\* an int16 call on a cloud with an axis of no extent, where the extent
\* array was overwritten in place, the array given being left as it was
C20_Witness ==
    /\ unit = "quantize"
    /\ q_call /= NoCall
    /\ q_call.mode = "int16"
    /\ quant.status = "ok"
    /\ ZeroExtentAxes(q_call.points) /= {}
    /\ Len(InPlaceWrites(q_call, quant)) = 2
    /\ arg_after = q_call.points

-----------------------------------------------------------------------------
(* C21: dry run *)

\* convert_frames was called by a converter in dry-run mode
DryRun == unit = "pipeline" /\ cv_call /= NoCall /\ cv_call.dry_run

\* C21: in dry-run mode the converter writes nothing: convert_frames
\* returns whatever the transforms did, emit_output makes no directory and
\* no file for what it returned (the output directory stays as it was), and
\* main returns 0
C21_DryRunWritesNothing ==
    DryRun =>
        /\ fs = NoFiles
        /\ cv_ret.status = "ok"
        /\ em_ret /= NoRet =>
               /\ em_ret.status = "ok"
               /\ em_ret.writes = <<>>
               /\ main_returns(cv_ret, em_ret) = 0

\* a dry run in which a transform of a selected frame failed was emitted
C21_Witness ==
    /\ DryRun
    /\ em_ret /= NoRet
    /\ cv_ret.frames /= <<>>
    /\ \E i \in 1..Len(cv_ret.trace) : cv_ret.trace[i].status /= "ok"

-----------------------------------------------------------------------------
(* C22: normalize_manifest_branches *)

\* the manifest of the directory, if it has one that can be read
HasManifest(files) ==
    /\ <<"manifest.json">> \in DOMAIN files
    /\ "manifest" \in DOMAIN files[<<"manifest.json">>]

\* the tool completed on a manifest whose first frame has detection files
Normalized ==
    /\ v_call.fn = "normalize_manifest_branches"
    /\ v_ret.status = "ok"
    /\ HasManifest(fs)
    /\ fs[<<"manifest.json">>].manifest.frames[1].urls.det /= <<>>

\* C22: after normalize_manifest_branches completed on a manifest whose
\* frames[0].urls.det is non-empty, the branches array of manifest.json is
\* the keys of frames[0].urls.det, sorted alphabetically, each once; a
\* second run changes nothing
C22_BranchesNormalized ==
    /\ Normalized =>
           LET manifest == fs[<<"manifest.json">>].manifest
           IN  /\ "branches" \in DOMAIN manifest
               /\ manifest.branches = sorted_keys(manifest.frames[1].urls.det)
    /\ (v_call.fn = "normalize_manifest_branches" /\ ncalls = 2) =>
           fs = v_call.before

-----------------------------------------------------------------------------
(* C23: order of the stages *)

\* the converter called convert_frames, which returned or raised
Converted == unit = "pipeline" /\ cv_ret /= NoRet

\* the converter wrote its output
Emitted ==
    /\ Converted
    /\ em_ret /= NoRet
    /\ em_ret.status = "ok"
    /\ ~cv_call.dry_run

\* the positions in the trace of the calls of a stage for a frame
StageCalls(stage, frame_id) ==
    {i \in 1..Len(cv_ret.trace) :
        /\ cv_ret.trace[i].stage = stage
        /\ cv_ret.trace[i].frame_id = frame_id}

\* C23: for every frame the converter processes, the stages occur in the
\* order downsample, quantize, container write: every frame handed to the
\* quantizer was downsampled just before and the quantizer's input is the
\* downsampler's output; the containers are written after convert_frames
\* returned, and the array written is the quantizer's output, or the
\* downsampler's output when quantize is 'off'
C23_StageOrder ==
    Converted =>
        /\ \A j \in 1..Len(cv_ret.trace) :
               cv_ret.trace[j].stage = "quantize" =>
                   /\ j > 1
                   /\ cv_ret.trace[j - 1].stage = "downsample"
                   /\ cv_ret.trace[j - 1].frame_id = cv_ret.trace[j].frame_id
                   /\ cv_ret.trace[j - 1].status = "ok"
                   /\ cv_ret.trace[j].input = cv_ret.trace[j - 1].output
        /\ cv_ret.status = "ok" =>
               \A k \in 1..Len(cv_ret.frames) :
                   /\ Cardinality(StageCalls("downsample",
                                             cv_ret.frames[k].frame_id)) = 1
                   /\ Cardinality(StageCalls("quantize",
                                             cv_ret.frames[k].frame_id))
                          = IF cv_call.quantize = "off" THEN 0 ELSE 1
        /\ (em_ret /= NoRet /\ em_ret.writes /= <<>>) =>
               /\ cv_ret.status = "ok"
               /\ \A k \in 1..Len(cv_ret.frames) :
                      LET frame_id == cv_ret.frames[k].frame_id
                          last == CHOOSE i \in StageCalls(
                                      IF cv_call.quantize = "off"
                                      THEN "downsample" ELSE "quantize",
                                      frame_id) : TRUE
                      IN  \E w \in 1..Len(em_ret.writes) :
                              /\ em_ret.writes[w].path =
                                     <<"frames", FileName(frame_id, ".bin")>>
                              /\ em_ret.writes[w].array =
                                     cv_ret.trace[last].output

\* two frames above the target were downsampled, quantized to int16 and
\* written
C23_Witness ==
    /\ Emitted
    /\ cv_call.quantize = "int16"
    /\ Len(cv_ret.frames) = 2
    /\ \A k \in 1..2 :
           /\ Shape0(cv_ret.frames[k].points) < Shape0(cv_call.frames[k].points)
           /\ cv_ret.frames[k].points.dtype /= "float32"

-----------------------------------------------------------------------------
(* C24: mode tag of the container *)

\* the quantization mode convert_frames applied to a frame
AppliedMode(frame) ==
    IF "quantize" \in DOMAIN frame.transform_metadata
    THEN frame.transform_metadata["quantize"].mode
    ELSE "off"

\* C24: for every frame the converter emits, the mode tag in the header of
\* the frame's container identifies the quantization mode convert_frames
\* applied to the frame's points: the tag of an unquantized (float32)
\* payload, 0, is found on the frames of mode off and on no others
C24_ModeTagIsAppliedMode ==
    Emitted =>
        \A k \in 1..Len(cv_ret.frames) :
            LET frame == cv_ret.frames[k]
                header == read_header(
                    fs[<<"frames", FileName(frame.frame_id, ".bin")>>])
            IN  (header.mode = 0) <=> (AppliedMode(frame) = "off")

-----------------------------------------------------------------------------
(* C25: phases of a conversion *)

\* the files a manifest refers to: the container of every frame, its ground
\* truth file and its detection files
ReferredFiles(manifest) ==
    UNION {LET ref == manifest.frames[k]
           IN  {ref.urls.points}
               \cup (IF ref.urls.gt /= <<>> THEN {ref.urls.gt} ELSE {})
               \cup {<<FileName(ref.id, ".det." \o ref.urls.det[i]
                                            \o ".json")>> :
                        i \in 1..Len(ref.urls.det)} :
           k \in 1..Len(manifest.frames)}

\* C25: in a conversion that is no dry run, nothing is made in the output
\* directory before every selected frame was downsampled and quantized
\* without error: a transform that fails ends convert_frames with its
\* exception, emit_output is not called, the directory stays untouched and
\* main returns 1; and the manifest is written after the files of every
\* frame, so that every file it refers to was written before it
C25_PhasesOrdered ==
    (Converted /\ ~cv_call.dry_run) =>
        /\ (\E i \in 1..Len(cv_ret.trace) : cv_ret.trace[i].status /= "ok")
               => cv_ret.status /= "ok"
        /\ cv_ret.status /= "ok" =>
               /\ fs = NoFiles
               /\ em_ret = NoRet
               /\ main_returns(cv_ret, em_ret) = 1
        /\ fs /= NoFiles =>
               /\ cv_ret.status = "ok"
               /\ em_ret /= NoRet
               /\ \A k \in 1..Len(cv_ret.frames) :
                      \A i \in StageCalls("downsample",
                                          cv_ret.frames[k].frame_id)
                             \cup StageCalls("quantize",
                                             cv_ret.frames[k].frame_id) :
                          cv_ret.trace[i].status = "ok"
        /\ em_ret /= NoRet =>
               \A p \in 1..Len(em_ret.writes) :
                   em_ret.writes[p].path = <<"manifest.json">> =>
                       /\ p = Len(em_ret.writes)
                       /\ \A f \in ReferredFiles(em_ret.writes[p].manifest) :
                              \E w \in 1..(p - 1) : em_ret.writes[w].path = f
        /\ HasManifest(fs) =>
               ReferredFiles(fs[<<"manifest.json">>].manifest) \subseteq DOMAIN fs

\* a manifest of two frames was written, with ground truth and detections
C25_Witness ==
    /\ Emitted
    /\ HasManifest(fs)
    /\ Len(fs[<<"manifest.json">>].manifest.frames) = 2
    /\ Cardinality(ReferredFiles(fs[<<"manifest.json">>].manifest)) > 2

-----------------------------------------------------------------------------
(* C26: point_count *)

\* C26: after convert_frames returned, for every selected frame, tier, mode
\* and dry-run setting, frame.point_count is the number of points in
\* frame.points, also when a transform failed and was skipped in a dry run;
\* hence the pointCount of a frame in the manifest is the number of points
\* written to the frame's container
C26_PointCountIsNumberOfPoints ==
    /\ (Converted /\ cv_ret.status = "ok") =>
           \A k \in 1..Len(cv_ret.frames) :
               cv_ret.frames[k].point_count = Len(cv_ret.frames[k].points.rows)
    /\ (Emitted /\ HasManifest(fs)) =>
           \A k \in 1..Len(fs[<<"manifest.json">>].manifest.frames) :
               LET ref == fs[<<"manifest.json">>].manifest.frames[k]
                   container == fs[ref.urls.points]
               IN  /\ ref.pointCount = read_header(container).count
                   /\ ref.pointCount = Len(container.payload)

\* a frame of more points than the target was sampled, quantized into
\* records with intensity, and written
C26_Witness ==
    /\ Emitted
    /\ HasManifest(fs)
    /\ cv_call.quantize = "int16"
    /\ \E k \in 1..Len(cv_ret.frames) :
           /\ cv_ret.frames[k].points.ndim = 1
           /\ cv_ret.frames[k].point_count > 0
           /\ cv_ret.frames[k].point_count
                  < Len(cv_call.frames[cv_call.frames_range[1] + k].points.rows)

-----------------------------------------------------------------------------
(* C27: downsampled frames and the validator's ceiling *)

\* the validator tier whose ceiling is the target of a downsampling tier
ValidatorTier(downsample) == IF downsample = "100k" THEN "full" ELSE "fallback"

\* C27: every frame that went through downsample_points with tier '100k'
\* (or '50k') has final_count <= 100,000 (or 50,000), whatever its original
\* count, so that no frame with points made by the pipeline is above the
\* point-count ceiling the validator has for the tier 'full' (or 'fallback'):
\* the point-count check of the written manifest passes for that tier when
\* no frame is empty
C27_FramesBelowCeiling ==
    /\ (Converted /\ cv_ret.status = "ok") =>
           \A k \in 1..Len(cv_ret.frames) :
               LET frame == cv_ret.frames[k]
               IN  /\ "downsample" \in DOMAIN frame.transform_metadata
                   /\ frame.transform_metadata["downsample"].final_count
                          <= tier_map[cv_call.downsample]
                   /\ frame.transform_metadata["downsample"].final_count
                          = Shape0(frame.points)
                   /\ frame.point_count
                          <= PointCeiling[ValidatorTier(cv_call.downsample)]
    /\ (/\ Emitted
        /\ v_call /= NoCall
        /\ v_call.fn = "run_validators"
        /\ v_call.manifest_path = <<"manifest.json">>
        /\ v_call.tier = ValidatorTier(cv_call.downsample)) =>
           /\ \A e \in 1..Len(v_ret.checks["point_counts"].errors) :
                  v_ret.checks["point_counts"].errors[e].message = "no points"
           /\ (\A k \in 1..Len(cv_ret.frames) :
                   cv_ret.frames[k].point_count > 0)
                  => v_ret.checks["point_counts"].valid

\* a frame of more points than the ceiling of tier 'full' was sampled down
\* to the target of '100k', written, and passed the point-count check
C27_Witness ==
    /\ Emitted
    /\ cv_call.downsample = "100k"
    /\ v_call /= NoCall
    /\ v_call.fn = "run_validators"
    /\ v_call.tier = "full"
    /\ "point_counts" \in DOMAIN v_ret.checks
    /\ v_ret.checks["point_counts"].valid
    /\ \E k \in 1..Len(cv_ret.frames) :
           /\ Shape0(cv_call.frames[cv_call.frames_range[1] + k].points)
                  > PointCeiling["full"]
           /\ cv_ret.frames[k].point_count = PointCeiling["full"]

-----------------------------------------------------------------------------
(* C28: range of the int16 encoding *)

\* the quantized x, y, z of point i of an int16 result
QuantizedXYZ(a, i) ==
    IF a.ndim = 1 THEN <<a.rows[i].x, a.rows[i].y, a.rows[i].z>>
    ELSE a.rows[i]

\* an int16 call on a cloud with points returned or raised
Int16Called ==
    /\ q_call /= NoCall
    /\ q_call.mode = "int16"
    /\ IsCloud(q_call.points)
    /\ Len(q_call.points.rows) > 0
    /\ quant /= NoRet

\* C28: in int16 mode, for every cloud with points and finite coordinates,
\* every quantized spatial value is in [-32767, 32767], on every axis the
\* points at the bbox minimum get -32767 and, when the axis has an extent,
\* the points at the bbox maximum get 32767; every quantized intensity is in
\* [0, 65535], 0 for inputs <= 0 and 65535 for inputs >= 1
C28_Int16Range ==
    Int16Called =>
        /\ quant.status = "ok"
        /\ Len(quant.points.rows) = Len(q_call.points.rows)
        /\ \A i \in 1..Len(q_call.points.rows), k \in 1..3 :
               LET v == q_call.points.rows[i][k]
                   q == QuantizedXYZ(quant.points, i)[k]
                   lo == quant.metadata.bbox_min[k]
                   hi == quant.metadata.bbox_max[k]
               IN  /\ q >= 0 - Int16Max
                   /\ q <= Int16Max
                   /\ v = lo => q = 0 - Int16Max
                   /\ (v = hi /\ hi /= lo) => q = Int16Max
        /\ q_call.points.ncols > 3 =>
               \A i \in 1..Len(q_call.points.rows) :
                   LET v == q_call.points.rows[i][4]
                       q == quant.points.rows[i].intensity
                   IN  /\ q >= 0
                       /\ q <= UInt16Max
                       /\ v <= 0 => q = 0
                       /\ v >= One => q = UInt16Max

\* the same for the clouds whose coordinates are far from the ends of the
\* float32 range
C28_OrdinaryRange == unit = "quantize" => C28_Int16Range

-----------------------------------------------------------------------------
(* C29: the empty cloud in int16 mode *)

\* C29: the int16 quantizer accepts every cloud the downsampler can return,
\* the empty cloud (no points, 3 columns or more) included: quantize_points
\* returns for it an empty quantized array and an envelope whose bbox is
\* (0,0,0)-(0,0,0), and does not raise
C29_EmptyCloudAccepted ==
    (/\ q_call /= NoCall
     /\ q_call.mode = "int16"
     /\ IsCloud(q_call.points)
     /\ quant /= NoRet) =>
        /\ quant.status = "ok"
        /\ Len(quant.points.rows) = Len(q_call.points.rows)
        /\ Len(q_call.points.rows) = 0 =>
               /\ quant.metadata.bbox_min = <<0, 0, 0>>
               /\ quant.metadata.bbox_max = <<0, 0, 0>>

-----------------------------------------------------------------------------
(* C30: branches of the written manifest *)

\* C30: in the manifest emit_output writes for any list of frames, every
\* branch name that is a key of some frame's urls.det is in the manifest's
\* branches list, whichever frame it is found in and whatever the order of
\* the frames
C30_BranchesCoverDetections ==
    (Emitted /\ HasManifest(fs)) =>
        LET manifest == fs[<<"manifest.json">>].manifest
        IN  \A k \in 1..Len(manifest.frames) :
                ToSet(manifest.frames[k].urls.det)
                    \subseteq ToSet(manifest.branches)

=============================================================================
